---- MODULE Spec2Model ----
(***************************************************************************)
(* The natural-language query engine DataInsightAI (utils/ai_insights.py)  *)
(* as a state machine: one engine instance bound to one backing table,     *)
(* answering a sequence of questions.                                      *)
(*                                                                         *)
(* Text is modelled as a sequence of one-character strings, so that the    *)
(* substring tests of the code (`word in q`) are real substring tests.     *)
(* Numbers are exact rationals (numerator, denominator > 0); a rendered    *)
(* figure is the integer number of hundredths (or tenths) that the format  *)
(* specification of the code prints.                                       *)
(***************************************************************************)
EXTENDS Integers, Sequences, FiniteSets, TLC

----------------------------------------------------------------------------
(* Bounds of the model *)

\* rows of a backing table
MaxRows == 2
\* free words of a generated question
MaxWords == 2

----------------------------------------------------------------------------
(* str: lower, in, replace, strip, split *)

UpperToLower ==
    [A |-> "a", B |-> "b", C |-> "c", D |-> "d", E |-> "e", F |-> "f",
     G |-> "g", H |-> "h", I |-> "i", J |-> "j", K |-> "k", L |-> "l",
     M |-> "m", N |-> "n", O |-> "o", P |-> "p", Q |-> "q", R |-> "r",
     S |-> "s", T |-> "t", U |-> "u", V |-> "v", W |-> "w", X |-> "x",
     Y |-> "y", Z |-> "z"]

LowerChar(c) == IF c \in DOMAIN UpperToLower THEN UpperToLower[c] ELSE c

\* s.lower()
lower(s) == [i \in 1..Len(s) |-> LowerChar(s[i])]

\* needle in hay
contains(hay, needle) ==
    \E i \in 1..(Len(hay) - Len(needle) + 1) :
        \A j \in 1..Len(needle) : hay[i + j - 1] = needle[j]

\* s.replace(c, '') for a one-character c
remove_char(s, c) == SelectSeq(s, LAMBDA x : x # c)

\* s.replace('_', ' ')
underscores_to_spaces(s) == [i \in 1..Len(s) |-> IF s[i] = "_" THEN " " ELSE s[i]]

\* s.strip()
strip(s) ==
    LET nonblank == {i \in 1..Len(s) : s[i] # " "}
    IN  IF nonblank = {} THEN <<>>
        ELSE SubSeq(s, CHOOSE i \in nonblank : \A j \in nonblank : i <= j,
                       CHOOSE i \in nonblank : \A j \in nonblank : i >= j)

\* s.split(): the maximal runs of non-blank characters, in order
RECURSIVE split(_)
split(s) ==
    IF s = <<>> THEN <<>>
    ELSE IF Head(s) = " " THEN split(Tail(s))
    ELSE LET blanks == {i \in 1..Len(s) : s[i] = " "}
             stop == IF blanks = {} THEN Len(s) + 1
                     ELSE CHOOSE i \in blanks : \A j \in blanks : i <= j
         IN  <<SubSeq(s, 1, stop - 1)>> \o split(SubSeq(s, stop, Len(s)))

\* ' '.join(words)
RECURSIVE join(_)
join(words) ==
    IF words = <<>> THEN <<>>
    ELSE IF Len(words) = 1 THEN words[1]
    ELSE words[1] \o <<" ">> \o join(Tail(words))

\* x in list
member(list, x) == \E i \in 1..Len(list) : list[i] = x

----------------------------------------------------------------------------
(* Cells, rows and backing tables *)

Num(n) == [t |-> "num", n |-> n, s |-> ""]
Text(s) == [t |-> "text", n |-> 0, s |-> s]
Missing == [t |-> "null", n |-> 0, s |-> ""]

c_id == <<"i","d">>
c_date == <<"d","a","t","e">>
c_revenue == <<"r","e","v","e","n","u","e">>
c_cost == <<"c","o","s","t">>
c_profit == <<"p","r","o","f","i","t">>
c_region == <<"r","e","g","i","o","n">>
c_unit_price == <<"u","n","i","t","_","p","r","i","c","e">>
c_quantity == <<"q","u","a","n","t","i","t","y">>
c_name == <<"n","a","m","e">>
c_city == <<"c","i","t","y">>

\* the dataset of the worked example: (date, revenue, cost, profit)
ColumnsFinancial == <<c_date, c_revenue, c_cost, c_profit>>
RowsFinancial ==
    { <<Text("2024-01-01"), Num(100), Num(40), Num(60)>>,
      <<Text("2024-01-02"), Num(200), Num(80), Num(120)>>,
      <<Text("2024-01-03"), Num(0), Missing, Num(-45)>> }

\* an uploaded CSV: create_table_from_columns prepends the id column
ColumnsUpload == <<c_id, c_region, c_unit_price, c_quantity>>
RowsUpload ==
    { <<Text("north"), Num(5), Num(3)>>,
      <<Text("south"), Missing, Num(4)>> }

\* a table without numeric columns
ColumnsText == <<c_name, c_city>>
RowsText ==
    { <<Text("ann"), Text("oslo")>>,
      <<Text("bob"), Missing>> }

SeqsUpTo(S, n) == UNION {[1..k -> S] : k \in 0..n}

\* AUTOINCREMENT: the id of a row is its position
WithId(rows) == [i \in 1..Len(rows) |-> <<Num(i)>> \o rows[i]]

AbsentTable == [exists |-> FALSE, columns |-> <<>>, rows |-> <<>>]

TablesFinancial ==
    {[exists |-> TRUE, columns |-> ColumnsFinancial, rows |-> r] :
        r \in SeqsUpTo(RowsFinancial, MaxRows)}

TablesUpload ==
    {[exists |-> TRUE, columns |-> ColumnsUpload, rows |-> WithId(r)] :
        r \in SeqsUpTo(RowsUpload, MaxRows)}

TablesText ==
    {[exists |-> TRUE, columns |-> ColumnsText, rows |-> r] :
        r \in SeqsUpTo(RowsText, MaxRows)}

\* an uploaded CSV of (revenue, cost, profit)
ColumnsUploadFinancial == <<c_id, c_revenue, c_cost, c_profit>>
RowsUploadFinancial ==
    { <<Num(100), Num(40), Num(60)>>,
      <<Num(0), Missing, Num(-45)>> }

TablesUploadFinancial ==
    {[exists |-> TRUE, columns |-> ColumnsUploadFinancial, rows |-> WithId(r)] :
        r \in SeqsUpTo(RowsUploadFinancial, MaxRows)}

\* financial rows with a day of refunds: revenue and profit below 0, cost 0
RowsRatio ==
    { <<Text("2024-01-01"), Num(100), Num(40), Num(60)>>,
      <<Text("2024-01-03"), Num(0), Missing, Num(-45)>>,
      <<Text("2024-01-04"), Num(-100), Num(0), Num(-100)>> }

TablesRatio ==
    {[exists |-> TRUE, columns |-> ColumnsFinancial, rows |-> r] :
        r \in SeqsUpTo(RowsRatio, MaxRows)}

Tables == {AbsentTable} \cup TablesFinancial \cup TablesUpload \cup TablesText

\* financial tables of full rows and rows without a cost
TablesFinancialFew ==
    {t \in TablesFinancial :
        \A i \in 1..Len(t.rows) : t.rows[i][2] \in {Num(100), Num(0)}}

----------------------------------------------------------------------------
(* Database.execute and DataInsightAI._load_data *)

\* Database.execute("SELECT * FROM t"): the rows, or [] on sqlite3.Error
execute(table) == IF table.exists THEN table.rows ELSE <<>>

\* position of a column name in a column list (0 when absent)
index_of(cols, col) ==
    IF member(cols, col) THEN CHOOSE i \in 1..Len(cols) : cols[i] = col ELSE 0

\* the cells of one column, in row order
column_cells(rows, i) == [r \in 1..Len(rows) |-> rows[r][i]]

\* DataFrame dtype inference followed by select_dtypes(include=['number']):
\* a column is numeric iff it holds a number and nothing but numbers and
\* missing values
is_numeric_dtype(cells) ==
    /\ \E r \in 1..Len(cells) : cells[r].t = "num"
    /\ \A r \in 1..Len(cells) : cells[r].t \in {"num", "null"}

EmptyFrame == [data |-> <<>>, columns |-> <<>>, numeric_cols |-> <<>>]

\* PRAGMA table_info(t): the column names, none for a table that is absent
table_info(table) == IF table.exists THEN table.columns ELSE <<>>

\* mutation: the except branch also forgets the column names
build_frame_resets(results, cols) ==
    IF \E r \in 1..Len(results) : Len(results[r]) # Len(cols)
    THEN EmptyFrame
    ELSE [data |-> results,
          columns |-> cols,
          numeric_cols |->
              SelectSeq(cols, LAMBDA c : is_numeric_dtype(
                                  column_cells(results, index_of(cols, c))))]

\* lines 47-56: self.columns is assigned, then pd.DataFrame(results, columns)
\* raises ValueError when the rows are not as wide as the column list, and the
\* except branch replaces the frame by an empty one
build_frame(results, cols) ==
    IF \E r \in 1..Len(results) : Len(results[r]) # Len(cols)
    THEN [data |-> <<>>, columns |-> cols, numeric_cols |-> <<>>]
    ELSE [data |-> results,
          columns |-> cols,
          numeric_cols |->
              SelectSeq(cols, LAMBDA c : is_numeric_dtype(
                                  column_cells(results, index_of(cols, c))))]

\* _load_data with no write to the store between its two reads
load_data(table) ==
    LET results == execute(table)
    IN  IF results = <<>> THEN EmptyFrame
        ELSE build_frame(results, table_info(table))

----------------------------------------------------------------------------
(* Arithmetic and number formatting *)

\* n/d rounded to the nearest integer, ties to even (d > 0): the rounding of
\* the format specifications '.2f' and '.1f'
RoundDiv(n, d) ==
    LET q == (2 * n + d) \div (2 * d)
    IN  IF (2 * n + d) % (2 * d) = 0 /\ q % 2 = 1 THEN q - 1 ELSE q

\* a float value: a finite rational n/d (d > 0), or nan, inf, -inf
Rat(n, d) == [k |-> "num", n |-> n, d |-> d]
NaN == [k |-> "nan", n |-> 0, d |-> 1]
Inf == [k |-> "inf", n |-> 0, d |-> 1]
NegInf == [k |-> "-inf", n |-> 0, d |-> 1]

\* IEEE division x / y of two float values
fdiv(x, y) ==
    IF x.k = "nan" \/ y.k = "nan" THEN NaN
    ELSE IF x.k # "num" /\ y.k # "num" THEN NaN
    ELSE IF x.k # "num" THEN
        IF y.n >= 0 THEN x ELSE (IF x.k = "inf" THEN NegInf ELSE Inf)
    ELSE IF y.k # "num" THEN Rat(0, 1)
    ELSE IF y.n = 0 THEN
        (IF x.n = 0 THEN NaN ELSE IF x.n > 0 THEN Inf ELSE NegInf)
    ELSE IF y.n > 0 THEN Rat(x.n * y.d, x.d * y.n)
    ELSE Rat(-(x.n * y.d), x.d * (-y.n))

\* x - y
fsub(x, y) ==
    IF x.k = "nan" \/ y.k = "nan" THEN NaN
    ELSE IF x.k # "num" /\ y.k # "num" THEN (IF x.k = y.k THEN NaN ELSE x)
    ELSE IF x.k # "num" THEN x
    ELSE IF y.k # "num" THEN (IF y.k = "inf" THEN NegInf ELSE Inf)
    ELSE Rat(x.n * y.d - y.n * x.d, x.d * y.d)

\* mutation: the factor is dropped (a fraction is printed, not a percentage)
fscale_dropped(x, c) == x

\* x * c for a positive integer c
fscale(x, c) == IF x.k = "num" THEN Rat(x.n * c, x.d) ELSE x

\* x != 0
fnonzero(x) == ~(x.k = "num" /\ x.n = 0)

\* a printed figure.  k = "num": the integer v, in hundredths, tenths or units
\* as the format says; "nan", "inf", "-inf": that word; "sqrt": the square
\* root of v/w; "cv": 100 times the square root of v/w, divided by x/y
Fig(k, v) == [k |-> k, v |-> v, w |-> 1, x |-> 0, y |-> 1]

\* f"{x:,.2f}", f"{x:.2f}": the number of hundredths printed (the thousands
\* separator does not change the number printed)
fmt2(x) == IF x.k = "num" THEN Fig("num", RoundDiv(100 * x.n, x.d)) ELSE Fig(x.k, 0)

\* f"{x:+.1f}", f"{x:.1f}": the number of tenths printed
fmt1(x) == IF x.k = "num" THEN Fig("num", RoundDiv(10 * x.n, x.d)) ELSE Fig(x.k, 0)

\* f"{n}" of an integer
fmt0(n) == Fig("num", n)

----------------------------------------------------------------------------
(* pandas.Series reductions over one column of the frame *)

\* self.data[col]
series(self, col) == column_cells(self.data, index_of(self.columns, col))

\* the non-missing numbers of a series, in row order
dropna(cells) ==
    LET kept == SelectSeq(cells, LAMBDA c : c.t = "num")
    IN  [i \in 1..Len(kept) |-> kept[i].n]

RECURSIVE SumSeq(_)
SumSeq(xs) == IF xs = <<>> THEN 0 ELSE Head(xs) + SumSeq(Tail(xs))

\* mutation: the first row is left out
series_sum_skips_first(cells) ==
    Rat(SumSeq(dropna(IF cells = <<>> THEN <<>> ELSE Tail(cells))), 1)

\* Series.sum(): missing values are skipped
series_sum(cells) == Rat(SumSeq(dropna(cells)), 1)

\* Series.count(): number of non-missing values
series_count(cells) == Len(SelectSeq(cells, LAMBDA c : c.t # "null"))

\* mutation: integer division
series_mean_floor(cells) ==
    IF dropna(cells) = <<>> THEN NaN
    ELSE Rat(SumSeq(dropna(cells)) \div Len(dropna(cells)), 1)

\* Series.mean(): sum of the non-missing values over their number
series_mean(cells) ==
    LET xs == dropna(cells)
    IN  IF xs = <<>> THEN NaN ELSE Rat(SumSeq(xs), Len(xs))

\* Series.max(), Series.min()
series_max(cells) ==
    LET xs == dropna(cells)
    IN  IF xs = <<>> THEN NaN
        ELSE Rat(CHOOSE m \in {xs[i] : i \in 1..Len(xs)} :
                     \A i \in 1..Len(xs) : xs[i] <= m, 1)

series_min(cells) ==
    LET xs == dropna(cells)
    IN  IF xs = <<>> THEN NaN
        ELSE Rat(CHOOSE m \in {xs[i] : i \in 1..Len(xs)} :
                     \A i \in 1..Len(xs) : xs[i] >= m, 1)

\* Series.iloc[i]: the value at a row, nan when missing
series_at(cells, i) == IF cells[i].t = "num" THEN Rat(cells[i].n, 1) ELSE NaN

----------------------------------------------------------------------------
(* Intent detectors: DataInsightAI._is_*_question *)

max_keywords ==
    << <<"m","a","x">>,
       <<"h","i","g","h","e","s","t">>,
       <<"l","a","r","g","e","s","t">>,
       <<"b","i","g","g","e","s","t">>,
       <<"m","o","s","t">>,
       <<"g","r","e","a","t","e","s","t">>,
       <<"p","e","a","k">> >>

min_keywords ==
    << <<"m","i","n">>,
       <<"l","o","w","e","s","t">>,
       <<"s","m","a","l","l","e","s","t">>,
       <<"l","e","a","s","t">>,
       <<"b","o","t","t","o","m">> >>

sum_keywords ==
    << <<"t","o","t","a","l">>,
       <<"s","u","m">>,
       <<"a","l","t","o","g","e","t","h","e","r">>,
       <<"c","o","m","b","i","n","e","d">>,
       <<"a","l","l"," ","t","o","g","e","t","h","e","r">> >>

avg_keywords ==
    << <<"a","v","e","r","a","g","e">>,
       <<"a","v","g">>,
       <<"m","e","a","n">>,
       <<"t","y","p","i","c","a","l">>,
       <<"o","n"," ","a","v","e","r","a","g","e">> >>

count_keywords ==
    << <<"h","o","w"," ","m","a","n","y">>,
       <<"c","o","u","n","t">>,
       <<"n","u","m","b","e","r"," ","o","f">>,
       <<"t","o","t","a","l"," ","r","e","c","o","r","d","s">>,
       <<"t","o","t","a","l"," ","r","o","w","s">> >>

trend_keywords ==
    << <<"t","r","e","n","d">>,
       <<"i","n","c","r","e","a","s","i","n","g">>,
       <<"d","e","c","r","e","a","s","i","n","g">>,
       <<"g","r","o","w","i","n","g">>,
       <<"r","i","s","i","n","g">>,
       <<"f","a","l","l","i","n","g">>,
       <<"c","h","a","n","g","e">>,
       <<"p","a","t","t","e","r","n">> >>

ratio_words ==
    << <<"r","a","t","i","o">>,
       <<"p","e","r","c","e","n","t","a","g","e">>,
       <<"p","e","r","c","e","n","t">>,
       <<"m","a","r","g","i","n">>,
       <<"d","i","v","i","d","e","d">>,
       <<"p","e","r">>,
       <<"v","s">>,
       <<"v","e","r","s","u","s">> >>

\* any(word in q for word in keywords)
any_in(q, keywords) == \E i \in 1..Len(keywords) : contains(q, keywords[i])

is_max_question(q) == any_in(q, max_keywords)

is_min_question(q) == any_in(q, min_keywords)

is_sum_question(q) == any_in(q, sum_keywords)

is_avg_question(q) == any_in(q, avg_keywords)

is_count_question(q) == any_in(q, count_keywords)

is_trend_question(q) == any_in(q, trend_keywords)

s_vs_spaced == <<" ","v","s"," ">>
s_compared_to == <<" ","c","o","m","p","a","r","e","d"," ","t","o"," ">>
s_versus_spaced == <<" ","v","e","r","s","u","s"," ">>
s_and_spaced == <<" ","a","n","d"," ">>
s_compare == <<"c","o","m","p","a","r","e">>

is_comparison_question(q) ==
    contains(q, s_vs_spaced) \/ contains(q, s_compared_to) \/ contains(q, s_versus_spaced)

\* mutation: the question is not lower-cased
is_ratio_question_cased(q) == any_in(q, ratio_words)

is_ratio_question(q) == any_in(lower(q), ratio_words)

\* mutation: 'compare' is not a trigger
is_multi_column_question_no_compare(q) ==
    \/ contains(lower(q), s_and_spaced)
    \/ contains(lower(q), s_vs_spaced)

is_multi_column_question(q) ==
    \/ contains(lower(q), s_and_spaced)
    \/ contains(lower(q), s_vs_spaced)
    \/ contains(lower(q), s_compare)

----------------------------------------------------------------------------
(* Column resolver: DataInsightAI._find_relevant_column *)

synonyms ==
    << [key |-> <<"r","e","v","e","n","u","e">>,
        syns |-> << <<"r","e","v","e","n","u","e">>,
                   <<"r","e","v","e","n","u","e","s">>,
                   <<"s","a","l","e","s">>,
                   <<"r","e","v">>,
                   <<"i","n","c","o","m","e">>,
                   <<"e","a","r","n","i","n","g","s">> >>],
       [key |-> <<"c","o","s","t">>,
        syns |-> << <<"c","o","s","t">>,
                   <<"c","o","s","t","s">>,
                   <<"e","x","p","e","n","s","e">>,
                   <<"e","x","p","e","n","s","e","s">>,
                   <<"s","p","e","n","d","i","n","g">> >>],
       [key |-> <<"p","r","o","f","i","t">>,
        syns |-> << <<"p","r","o","f","i","t">>,
                   <<"p","r","o","f","i","t","s">>,
                   <<"e","a","r","n","i","n","g","s">>,
                   <<"n","e","t">>,
                   <<"g","a","i","n">> >>],
       [key |-> <<"p","r","i","c","e">>,
        syns |-> << <<"p","r","i","c","e">>,
                   <<"p","r","i","c","e","s">>,
                   <<"a","m","o","u","n","t">>,
                   <<"v","a","l","u","e">>,
                   <<"c","o","s","t">> >>],
       [key |-> <<"q","u","a","n","t","i","t","y">>,
        syns |-> << <<"q","u","a","n","t","i","t","y">>,
                   <<"q","t","y">>,
                   <<"c","o","u","n","t">>,
                   <<"n","u","m","b","e","r">>,
                   <<"v","o","l","u","m","e">> >>],
       [key |-> <<"d","a","t","e">>,
        syns |-> << <<"d","a","t","e">>,
                   <<"t","i","m","e">>,
                   <<"w","h","e","n">>,
                   <<"d","a","y">> >>] >>

\* the value standing for Python's None (and for the empty string, which the
\* code's truth tests treat alike)
None == <<>>

\* exceptions: an expression that raises has the exception as its value
IndexError == <<"IndexError">>
KeyError == <<"KeyError">>
IsException(x) == x \in {IndexError, KeyError}

\* list[0]
first_of(list) == IF list = <<>> THEN IndexError ELSE list[1]

\* self.data[col] raises KeyError for a name that is not a column of the frame
raises_KeyError(self, col) == ~member(self.columns, col)

\* question.lower().replace('?', '').replace(',', '').split(), keeping the
\* words longer than 2 characters
question_words(question) ==
    SelectSeq(split(remove_char(remove_char(lower(question), "?"), ",")),
              LAMBDA w : Len(w) > 2)

\* number of positions of a list that satisfy a test
CountIf(list, Test(_)) == Cardinality({i \in 1..Len(list) : Test(list[i])})

\* mutation: the test is inverted
direct_score_inverted(col_lower, question) ==
    IF contains(question, col_lower) THEN 0 ELSE 100

\* +100: the column name occurs in the question
direct_score(col_lower, question) ==
    IF contains(question, col_lower) THEN 100 ELSE 0

\* +50 for every (synonym entry of the column, question word of that entry)
RECURSIVE synonym_score_from(_, _, _)
synonym_score_from(k, col_lower, words) ==
    IF k > Len(synonyms) THEN 0
    ELSE (IF col_lower = synonyms[k].key \/ member(synonyms[k].syns, col_lower)
          THEN 50 * CountIf(words, LAMBDA w : member(synonyms[k].syns, w)
                                              \/ w = synonyms[k].key)
          ELSE 0)
         + synonym_score_from(k + 1, col_lower, words)

synonym_score(col_lower, words) == synonym_score_from(1, col_lower, words)

\* the test shared by the +10 rule and the all-columns scan
word_matches(word, col_lower) ==
    /\ contains(col_lower, word) \/ contains(word, col_lower)
    /\ Len(word) > 3

\* mutation: the +10 rule is left out
substring_score_dropped(col_lower, words) == 0

\* +10 for every question word of more than 3 characters that is contained
\* in the column name or contains it
substring_score(col_lower, words) ==
    10 * CountIf(words, LAMBDA w : word_matches(w, col_lower))

column_score(col, question, words) ==
    direct_score(lower(col), question)
    + synonym_score(lower(col), words)
    + substring_score(lower(col), words)

\* mutation: a later column with an equal score replaces the best match
RECURSIVE best_from_last_wins(_, _, _, _, _, _)
best_from_last_wins(i, numeric_cols, question, words, best_match, best_score) ==
    IF i > Len(numeric_cols) THEN [match |-> best_match, score |-> best_score]
    ELSE IF /\ column_score(numeric_cols[i], question, words) >= best_score
            /\ column_score(numeric_cols[i], question, words) > 0
    THEN best_from_last_wins(i + 1, numeric_cols, question, words, numeric_cols[i],
                             column_score(numeric_cols[i], question, words))
    ELSE best_from_last_wins(i + 1, numeric_cols, question, words, best_match,
                             best_score)

\* the loop over numeric_cols: a later column replaces the best match only
\* with a strictly greater score
RECURSIVE best_from(_, _, _, _, _, _)
best_from(i, numeric_cols, question, words, best_match, best_score) ==
    IF i > Len(numeric_cols) THEN [match |-> best_match, score |-> best_score]
    ELSE IF column_score(numeric_cols[i], question, words) > best_score
    THEN best_from(i + 1, numeric_cols, question, words, numeric_cols[i],
                   column_score(numeric_cols[i], question, words))
    ELSE best_from(i + 1, numeric_cols, question, words, best_match, best_score)

\* mutation: the scan over all columns is left out
fallback_scan_skipped(columns, words) == None

\* the fallback scan over all columns: the first column matched by a word
fallback_scan(columns, words) ==
    LET hits == {i \in 1..Len(columns) :
                    \E j \in 1..Len(words) : word_matches(words[j], lower(columns[i]))}
    IN  IF hits = {} THEN None
        ELSE columns[CHOOSE i \in hits : \A j \in hits : i <= j]

\* mutation: the first numeric column is taken without asking whether there
\* is one
best_or_first_unguarded(self, best_match) ==
    IF best_match # None THEN best_match
    ELSE first_of(self.numeric_cols)

\* mutation: no default to the first numeric column
best_or_first_no_default(self, best_match) == best_match

\* best_match, else the first numeric column, else None
best_or_first(self, best_match) ==
    IF best_match # None THEN best_match
    ELSE IF self.numeric_cols # <<>> THEN first_of(self.numeric_cols)
    ELSE None

find_relevant_column(self, question) ==
    LET words == question_words(question)
        best == best_from(1, self.numeric_cols, question, words, None, 0)
    IN  IF best.score = 0 /\ fallback_scan(self.columns, words) # None
        THEN fallback_scan(self.columns, words)
        ELSE best_or_first(self, best.match)

\* Series.median(): the middle of the sorted non-missing values
kth_smallest(xs, k) ==
    CHOOSE v \in {xs[i] : i \in 1..Len(xs)} :
        /\ Cardinality({i \in 1..Len(xs) : xs[i] < v}) < k
        /\ Cardinality({i \in 1..Len(xs) : xs[i] <= v}) >= k

series_median(cells) ==
    LET xs == dropna(cells)
        n == Len(xs)
    IN  IF n = 0 THEN NaN
        ELSE IF n % 2 = 1 THEN Rat(kth_smallest(xs, (n + 1) \div 2), 1)
        ELSE Rat(kth_smallest(xs, n \div 2) + kth_smallest(xs, n \div 2 + 1), 2)

\* Series.std() (ddof = 1): the variance is
\* (n * sum(x^2) - sum(x)^2) / (n * (n - 1)); nan for fewer than 2 values.
\* The root is not evaluated: the figures keep the variance.
RECURSIVE SumSquares(_)
SumSquares(xs) == IF xs = <<>> THEN 0 ELSE Head(xs) * Head(xs) + SumSquares(Tail(xs))

variance(cells) ==
    LET xs == dropna(cells)
        n == Len(xs)
    IN  IF n < 2 THEN NaN
        ELSE Rat(n * SumSquares(xs) - SumSeq(xs) * SumSeq(xs), n * (n - 1))

\* f"{std:,.2f}"
fmt2_std(var) ==
    IF var.k # "num" THEN Fig(var.k, 0)
    ELSE IF var.n = 0 THEN Fig("num", 0)
    ELSE [k |-> "sqrt", v |-> var.n, w |-> var.d, x |-> 0, y |-> 1]

\* f"{(std/avg*100):.1f}"
fmt1_variation(var, avg) ==
    IF var.k # "num" \/ avg.k # "num" THEN Fig("nan", 0)
    ELSE IF avg.n = 0 THEN (IF var.n = 0 THEN Fig("nan", 0) ELSE Fig("inf", 0))
    ELSE IF var.n = 0 THEN Fig("num", 0)
    ELSE [k |-> "cv", v |-> var.n, w |-> var.d, x |-> avg.n, y |-> avg.d]

----------------------------------------------------------------------------
(* Answer texts *)

LowerToUpper ==
    [a |-> "A", b |-> "B", c |-> "C", d |-> "D", e |-> "E", f |-> "F",
     g |-> "G", h |-> "H", i |-> "I", j |-> "J", k |-> "K", l |-> "L",
     m |-> "M", n |-> "N", o |-> "O", p |-> "P", q |-> "Q", r |-> "R",
     s |-> "S", t |-> "T", u |-> "U", v |-> "V", w |-> "W", x |-> "X",
     y |-> "Y", z |-> "Z"]

IsLetter(c) == c \in DOMAIN LowerToUpper \/ c \in DOMAIN UpperToLower

UpperChar(c) == IF c \in DOMAIN LowerToUpper THEN LowerToUpper[c] ELSE c

\* s.title()
title(s) ==
    [i \in 1..Len(s) |->
        IF i = 1 \/ ~IsLetter(s[i - 1]) THEN UpperChar(s[i]) ELSE LowerChar(s[i])]

\* col.replace('_', ' ').title()
heading(col) == title(underscores_to_spaces(col))

\* An answer text: the generator that wrote it, whether it begins with the
\* failure marker, its fixed wording, the names and the figures put into it
Answer(gen, failure, text, names, figs) ==
    [gen |-> gen, failure |-> failure, text |-> text, names |-> names, figs |-> figs]

NoDataMessage == "No data available. Please upload a CSV file first."

\* except Exception as e: return f"<marker> <prefix>: {str(e)}"
Caught(gen, prefix, e) == Answer(gen, TRUE, prefix, <<e>>, <<>>)

\* an exception that leaves answer_question: no text is returned
Raised(e) == Answer("Raised", FALSE, "raised", <<e>>, <<>>)

----------------------------------------------------------------------------
(* Answer generators: DataInsightAI._answer_* *)

One == Rat(1, 1)

answer_max(self, col, question) ==
    IF ~member(self.numeric_cols, col)
    THEN Answer("Max", TRUE, "Cannot find maximum of non-numeric column", <<col>>, <<>>)
    ELSE IF raises_KeyError(self, col) THEN Caught("Max", "Error", KeyError)
    ELSE LET max_val == series_max(series(self, col))
             avg_val == series_mean(series(self, col))
         IN  Answer("Max", FALSE, "Highest", <<heading(col)>>,
                    <<fmt2(max_val), fmt2(avg_val), fmt2(fsub(max_val, avg_val)),
                      fmt1(fscale(fsub(fdiv(max_val, avg_val), One), 100))>>)

answer_min(self, col, question) ==
    IF ~member(self.numeric_cols, col)
    THEN Answer("Min", TRUE, "Cannot find minimum of non-numeric column", <<col>>, <<>>)
    ELSE IF raises_KeyError(self, col) THEN Caught("Min", "Error", KeyError)
    ELSE LET min_val == series_min(series(self, col))
             avg_val == series_mean(series(self, col))
         IN  Answer("Min", FALSE, "Lowest", <<heading(col)>>,
                    <<fmt2(min_val), fmt2(avg_val), fmt2(fsub(avg_val, min_val)),
                      fmt1(fscale(fsub(One, fdiv(min_val, avg_val)), 100))>>)

\* figures: Sum, Records, Average per record, Percentage breakdown
answer_sum(self, col, question) ==
    IF ~member(self.numeric_cols, col)
    THEN Answer("Sum", TRUE, "Cannot sum non-numeric column", <<col>>, <<>>)
    ELSE IF raises_KeyError(self, col) THEN Caught("Sum", "Error", KeyError)
    ELSE LET total == series_sum(series(self, col))
             count == Len(self.data)
             avg == series_mean(series(self, col))
         IN  Answer("Sum", FALSE, "Total", <<heading(col)>>,
                    <<fmt2(total), fmt0(count), fmt2(avg),
                      fmt2(IF fnonzero(total) THEN fscale(fdiv(avg, total), 100)
                           ELSE Rat(0, 1))>>)

\* mutation: the non-numeric case answers as _answer_general does, without
\* the failure marker
answer_avg_unmarked(self, col, question) ==
    IF ~member(self.numeric_cols, col)
    THEN Answer("Avg", FALSE, "Showing data for column", <<heading(col)>>, <<>>)
    ELSE IF raises_KeyError(self, col) THEN Caught("Avg", "Error", KeyError)
    ELSE LET avg == series_mean(series(self, col))
             median == series_median(series(self, col))
             var == variance(series(self, col))
         IN  Answer("Avg", FALSE, "Average", <<heading(col)>>,
                    <<fmt2(avg), fmt2(median), fmt2_std(var), fmt1_variation(var, avg)>>)

answer_avg(self, col, question) ==
    IF ~member(self.numeric_cols, col)
    THEN Answer("Avg", TRUE, "Cannot calculate average of non-numeric column", <<col>>, <<>>)
    ELSE IF raises_KeyError(self, col) THEN Caught("Avg", "Error", KeyError)
    ELSE LET avg == series_mean(series(self, col))
             median == series_median(series(self, col))
             var == variance(series(self, col))
         IN  Answer("Avg", FALSE, "Average", <<heading(col)>>,
                    <<fmt2(avg), fmt2(median), fmt2_std(var), fmt1_variation(var, avg)>>)

\* mutation: the column must be numeric, as for the other aggregates
answer_count_numeric_only(self, col, question) ==
    IF ~member(self.numeric_cols, col)
    THEN Answer("Count", TRUE, "Cannot count non-numeric column", <<col>>, <<>>)
    ELSE Answer("Count", FALSE, "Data Count", <<col>>,
                <<fmt0(Len(self.data)), fmt0(series_count(series(self, col))),
                  fmt0(Len(self.data) - series_count(series(self, col)))>>)

\* figures: Total records, Non-null values, Missing values
answer_count(self, col, question) ==
    LET count == Len(self.data)
        non_null == IF member(self.columns, col) THEN series_count(series(self, col))
                    ELSE count
    IN  Answer("Count", FALSE, "Data Count", <<col>>,
               <<fmt0(count), fmt0(non_null), fmt0(count - non_null)>>)

\* x > 0, x < 0 (both false for nan)
fpositive(x) == x.k = "inf" \/ (x.k = "num" /\ x.n > 0)
fnegative(x) == x.k = "-inf" \/ (x.k = "num" /\ x.n < 0)

\* mutation: the row count is not checked
answer_trend_rows_unchecked(self, col, question) ==
    IF ~member(self.numeric_cols, col)
    THEN Answer("Trend", TRUE, "Cannot analyze trend for column", <<col>>, <<>>)
    ELSE IF raises_KeyError(self, col) THEN Caught("Trend", "Error", KeyError)
    ELSE LET first_val == series_at(series(self, col), 1)
             last_val == series_at(series(self, col), Len(self.data))
             change == fsub(last_val, first_val)
             pct_change == IF fnonzero(first_val)
                           THEN fscale(fdiv(change, first_val), 100)
                           ELSE Rat(0, 1)
             trend == IF fpositive(change) THEN "INCREASING"
                      ELSE IF fnegative(change) THEN "DECREASING"
                      ELSE "STABLE"
         IN  Answer("Trend", FALSE, trend, <<>>,
                    <<fmt2(first_val), fmt2(last_val), fmt2(change), fmt1(pct_change),
                      fmt2(fdiv(change, Rat(Len(self.data), 1)))>>)

\* figures: Start, End, Change, percent change, Avg daily change
answer_trend(self, col, question) ==
    IF ~member(self.numeric_cols, col) \/ Len(self.data) < 2
    THEN Answer("Trend", TRUE, "Cannot analyze trend for column", <<col>>, <<>>)
    ELSE IF raises_KeyError(self, col) THEN Caught("Trend", "Error", KeyError)
    ELSE LET first_val == series_at(series(self, col), 1)
             last_val == series_at(series(self, col), Len(self.data))
             change == fsub(last_val, first_val)
             pct_change == IF fnonzero(first_val)
                           THEN fscale(fdiv(change, first_val), 100)
                           ELSE Rat(0, 1)
             trend == IF fpositive(change) THEN "INCREASING"
                      ELSE IF fnegative(change) THEN "DECREASING"
                      ELSE "STABLE"
         IN  Answer("Trend", FALSE, trend, <<>>,
                    <<fmt2(first_val), fmt2(last_val), fmt2(change), fmt1(pct_change),
                      fmt2(fdiv(change, Rat(Len(self.data), 1)))>>)

\* list[:n]
take(list, n) == SubSeq(list, 1, IF Len(list) < n THEN Len(list) ELSE n)

\* figures per compared column: Total, Average, Max
RECURSIVE comparison_figs(_, _)
comparison_figs(self, cols) ==
    IF cols = <<>> THEN <<>>
    ELSE <<fmt2(series_sum(series(self, Head(cols)))),
           fmt2(series_mean(series(self, Head(cols)))),
           fmt2(series_max(series(self, Head(cols))))>>
         \o comparison_figs(self, Tail(cols))

map_heading(cols) == [i \in 1..Len(cols) |-> heading(cols[i])]

answer_comparison(self, col, question) ==
    IF Len(self.numeric_cols) < 2
    THEN Answer("Comparison", TRUE, "Need at least 2 numeric columns to compare", <<>>, <<>>)
    ELSE LET mentioned == SelectSeq(self.numeric_cols,
                                    LAMBDA c : contains(lower(question), c))
             cols_to_compare == IF Len(mentioned) < 2 THEN take(self.numeric_cols, 2)
                                ELSE mentioned
         IN  IF \E i \in 1..Len(cols_to_compare) :
                    raises_KeyError(self, cols_to_compare[i])
             THEN Caught("Comparison", "Error", KeyError)
             ELSE Answer("Comparison", FALSE, "Comparison",
                         <<cols_to_compare[1], cols_to_compare[2]>>
                             \o map_heading(cols_to_compare),
                         comparison_figs(self, cols_to_compare))

\* figures: Sum, Average, Maximum, Minimum, Records
answer_general(self, col, question) ==
    IF ~member(self.numeric_cols, col)
    THEN Answer("General", FALSE, "Showing data for column", <<heading(col)>>, <<>>)
    ELSE IF raises_KeyError(self, col) THEN Caught("General", "Error", KeyError)
    ELSE Answer("General", FALSE, "Overview", <<heading(col)>>,
                <<fmt2(series_sum(series(self, col))),
                  fmt2(series_mean(series(self, col))),
                  fmt2(series_max(series(self, col))),
                  fmt2(series_min(series(self, col))),
                  fmt0(Len(self.data))>>)

s_profit_margin == <<"p","r","o","f","i","t"," ","m","a","r","g","i","n">>
s_margin == <<"m","a","r","g","i","n">>
s_profit == <<"p","r","o","f","i","t">>
s_revenue == <<"r","e","v","e","n","u","e">>
s_cost == <<"c","o","s","t">>
s_ratio == <<"r","a","t","i","o">>
s_vs == <<"v","s">>

RatioNotAvailable ==
    Answer("Ratio", TRUE, "Data not available for requested ratio", <<>>, <<>>)

\* mutation: the ratio is computed without the test of the cost sum
revenue_cost_ratio_unguarded(self, q_lower) ==
    IF /\ contains(q_lower, s_revenue)
       /\ contains(q_lower, s_cost)
       /\ contains(q_lower, s_ratio) \/ contains(q_lower, s_vs)
       /\ member(self.numeric_cols, s_revenue)
       /\ member(self.numeric_cols, s_cost)
    THEN LET revenue == series_sum(series(self, s_revenue))
             cost == series_sum(series(self, s_cost))
             ratio == fdiv(revenue, cost)
         IN  Answer("Ratio", FALSE, "Revenue to Cost Ratio", <<>>,
                    <<fmt2(ratio), fmt2(revenue), fmt2(cost), fmt2(ratio)>>)
    ELSE RatioNotAvailable

\* 'revenue' in q and 'cost' in q and ('ratio' in q or 'vs' in q), on the columns
\* revenue and cost.  figures: Ratio, Total Revenue, Total Cost, Ratio
revenue_cost_ratio(self, q_lower) ==
    IF /\ contains(q_lower, s_revenue)
       /\ contains(q_lower, s_cost)
       /\ contains(q_lower, s_ratio) \/ contains(q_lower, s_vs)
       /\ member(self.numeric_cols, s_revenue)
       /\ member(self.numeric_cols, s_cost)
       /\ raises_KeyError(self, s_revenue) \/ raises_KeyError(self, s_cost)
    THEN Caught("Ratio", "Error calculating ratio", KeyError)
    ELSE
    IF /\ contains(q_lower, s_revenue)
       /\ contains(q_lower, s_cost)
       /\ contains(q_lower, s_ratio) \/ contains(q_lower, s_vs)
       /\ member(self.numeric_cols, s_revenue)
       /\ member(self.numeric_cols, s_cost)
       /\ fnonzero(series_sum(series(self, s_cost)))
    THEN LET revenue == series_sum(series(self, s_revenue))
             cost == series_sum(series(self, s_cost))
             ratio == fdiv(revenue, cost)
         IN  Answer("Ratio", FALSE, "Revenue to Cost Ratio", <<>>,
                    <<fmt2(ratio), fmt2(revenue), fmt2(cost), fmt2(ratio)>>)
    ELSE RatioNotAvailable

\* figures: Margin, Total Profit, Total Revenue, Interpretation
answer_ratio_question(self, question) ==
    LET q_lower == lower(question)
    IN  IF /\ \/ contains(q_lower, s_profit_margin)
              \/ contains(q_lower, s_margin) /\ contains(q_lower, s_profit)
           /\ member(self.numeric_cols, s_profit)
           /\ member(self.numeric_cols, s_revenue)
           /\ raises_KeyError(self, s_profit) \/ raises_KeyError(self, s_revenue)
        THEN Caught("Ratio", "Error calculating ratio", KeyError)
        ELSE
        IF /\ \/ contains(q_lower, s_profit_margin)
              \/ contains(q_lower, s_margin) /\ contains(q_lower, s_profit)
           /\ member(self.numeric_cols, s_profit)
           /\ member(self.numeric_cols, s_revenue)
           /\ fnonzero(series_sum(series(self, s_revenue)))
        THEN LET profit == series_sum(series(self, s_profit))
                 revenue == series_sum(series(self, s_revenue))
                 margin == fscale(fdiv(profit, revenue), 100)
             IN  Answer("Ratio", FALSE, "Profit Margin Analysis", <<>>,
                        <<fmt2(margin), fmt2(profit), fmt2(revenue), fmt2(margin)>>)
        ELSE revenue_cost_ratio(self, q_lower)

\* figures per reported column: Sum, Average, Min, Max of the non-missing values
RECURSIVE multi_column_figs(_, _)
multi_column_figs(self, cols) ==
    IF cols = <<>> THEN <<>>
    ELSE <<fmt2(series_sum(series(self, Head(cols)))),
           fmt2(series_mean(series(self, Head(cols)))),
           fmt2(series_min(series(self, Head(cols)))),
           fmt2(series_max(series(self, Head(cols))))>>
         \o multi_column_figs(self, Tail(cols))

\* mutation: every mentioned column is reported, however many
answer_multi_column_question_unlimited(self, question) ==
    LET q_lower == lower(question)
        mentioned_cols ==
            SelectSeq(self.numeric_cols,
                      LAMBDA c : \/ contains(q_lower, lower(c))
                                 \/ contains(q_lower, underscores_to_spaces(lower(c))))
    IN  IF Len(mentioned_cols) < 2
        THEN Answer("MultiColumn", TRUE, "Please mention at least two columns to compare",
                    <<>>, <<>>)
        ELSE Answer("MultiColumn", FALSE, "Comparison Analysis",
                    map_heading(mentioned_cols),
                    multi_column_figs(self, mentioned_cols))

answer_multi_column_question(self, question) ==
    LET q_lower == lower(question)
        mentioned_cols ==
            SelectSeq(self.numeric_cols,
                      LAMBDA c : \/ contains(q_lower, lower(c))
                                 \/ contains(q_lower, underscores_to_spaces(lower(c))))
    IN  IF Len(mentioned_cols) < 2
        THEN Answer("MultiColumn", TRUE, "Please mention at least two columns to compare",
                    <<>>, <<>>)
        ELSE IF \E i \in 1..Len(take(mentioned_cols, 3)) :
                    raises_KeyError(self, mentioned_cols[i])
        THEN Caught("MultiColumn", "Error in comparison", KeyError)
        ELSE Answer("MultiColumn", FALSE, "Comparison Analysis",
                    map_heading(take(mentioned_cols, 3)),
                    multi_column_figs(self, take(mentioned_cols, 3)))

generate_generic_response(self, question) ==
    IF self.numeric_cols # <<>>
    THEN Answer("Unresolved", FALSE, "Available numeric columns to ask about",
                map_heading(self.numeric_cols) \o <<first_of(self.numeric_cols)>>, <<>>)
    ELSE Answer("Unresolved", TRUE, "No numeric data found in this dataset", <<>>, <<>>)

----------------------------------------------------------------------------
(* DataInsightAI.answer_question *)

\* confidence values, in hundredths
DefaultConfidence == 100
RatioConfidence == 90
MultiColumnConfidence == 85

\* mutation: the two clamps are exchanged, max(1.0, min(0.0, score))
set_confidence_swapped(self, score) ==
    [self EXCEPT !.confidence =
        IF (IF score < 0 THEN score ELSE 0) > 100 THEN (IF score < 0 THEN score ELSE 0)
        ELSE 100]

\* self.confidence = max(0.0, min(1.0, score))
set_confidence(self, score) ==
    [self EXCEPT !.confidence =
        IF score > 100 THEN 100 ELSE IF score < 0 THEN 0 ELSE score]

get_confidence_score(self) == self.confidence

\* mutation: the Sum group is tried before the Max and Min groups
dispatch_sum_first(self, metric_col, question, question_lower) ==
    IF is_sum_question(question_lower) THEN answer_sum(self, metric_col, question)
    ELSE IF is_max_question(question_lower) THEN answer_max(self, metric_col, question)
    ELSE IF is_min_question(question_lower) THEN answer_min(self, metric_col, question)
    ELSE IF is_avg_question(question_lower) THEN answer_avg(self, metric_col, question)
    ELSE IF is_count_question(question_lower) THEN answer_count(self, metric_col, question)
    ELSE IF is_trend_question(question_lower) THEN answer_trend(self, metric_col, question)
    ELSE IF is_comparison_question(question_lower)
         THEN answer_comparison(self, metric_col, question_lower)
    ELSE answer_general(self, metric_col, question)

\* mutation: the Count group is tried first
dispatch_count_first(self, metric_col, question, question_lower) ==
    IF is_count_question(question_lower) THEN answer_count(self, metric_col, question)
    ELSE IF is_max_question(question_lower) THEN answer_max(self, metric_col, question)
    ELSE IF is_min_question(question_lower) THEN answer_min(self, metric_col, question)
    ELSE IF is_sum_question(question_lower) THEN answer_sum(self, metric_col, question)
    ELSE IF is_avg_question(question_lower) THEN answer_avg(self, metric_col, question)
    ELSE IF is_trend_question(question_lower) THEN answer_trend(self, metric_col, question)
    ELSE IF is_comparison_question(question_lower)
         THEN answer_comparison(self, metric_col, question_lower)
    ELSE answer_general(self, metric_col, question)

\* the keyword groups, tried in the order of the if / elif chain
dispatch(self, metric_col, question, question_lower) ==
    IF is_max_question(question_lower) THEN answer_max(self, metric_col, question)
    ELSE IF is_min_question(question_lower) THEN answer_min(self, metric_col, question)
    ELSE IF is_sum_question(question_lower) THEN answer_sum(self, metric_col, question)
    ELSE IF is_avg_question(question_lower) THEN answer_avg(self, metric_col, question)
    ELSE IF is_count_question(question_lower) THEN answer_count(self, metric_col, question)
    ELSE IF is_trend_question(question_lower) THEN answer_trend(self, metric_col, question)
    ELSE IF is_comparison_question(question_lower)
         THEN answer_comparison(self, metric_col, question_lower)
    ELSE answer_general(self, metric_col, question)

\* mutation: a generator consumes the column list it reports on
Return_consumes(self, text, metric_col) ==
    [self |-> [self EXCEPT !.numeric_cols =
                  IF self.numeric_cols = <<>> THEN <<>> ELSE Tail(self.numeric_cols)],
     text |-> text, metric_col |-> metric_col]

\* mutation: a failure resets the data of the instance
Return_poisoned(self, text, metric_col) ==
    [self |-> IF text.failure THEN [self EXCEPT !.data = <<>>] ELSE self,
     text |-> text, metric_col |-> metric_col]

\* the result of a call: the instance after it, the text returned, and the
\* column the resolver chose (None when the resolver did not run or found none)
Return(self, text, metric_col) == [self |-> self, text |-> text, metric_col |-> metric_col]

\* mutation: the confidence is written after the generator has run, and only
\* for an answer that is not a failure
answer_loaded_confidence_on_success(self, question) ==
    IF is_ratio_question(question)
    THEN Return(IF answer_ratio_question(self, question).failure THEN self
                ELSE set_confidence(self, RatioConfidence),
                answer_ratio_question(self, question),
                None)
    ELSE IF is_multi_column_question(question)
    THEN Return(IF answer_multi_column_question(self, question).failure THEN self
                ELSE set_confidence(self, MultiColumnConfidence),
                answer_multi_column_question(self, question),
                None)
    ELSE LET question_lower == strip(lower(question))
             metric_col == find_relevant_column(self, question_lower)
         IN  IF IsException(metric_col)
             THEN Return(self, Raised(metric_col), None)
             ELSE IF metric_col = None
             THEN Return(self, generate_generic_response(self, question_lower), None)
             ELSE Return(self, dispatch(self, metric_col, question, question_lower),
                         metric_col)

\* lines 72-113: the detectors, the resolver and the keyword groups
answer_loaded(self, question) ==
    IF is_ratio_question(question)
    THEN Return(set_confidence(self, RatioConfidence),
                answer_ratio_question(set_confidence(self, RatioConfidence), question),
                None)
    ELSE IF is_multi_column_question(question)
    THEN Return(set_confidence(self, MultiColumnConfidence),
                answer_multi_column_question(
                    set_confidence(self, MultiColumnConfidence), question),
                None)
    ELSE LET question_lower == strip(lower(question))
             metric_col == find_relevant_column(self, question_lower)
         IN  IF IsException(metric_col)
             THEN Return(self, Raised(metric_col), None)
             ELSE IF metric_col = None
             THEN Return(self, generate_generic_response(self, question_lower), None)
             ELSE Return(self, dispatch(self, metric_col, question, question_lower),
                         metric_col)

\* mutation: the no-data check is missing
answer_question_unguarded(self, question) == answer_loaded(self, question)

\* mutation: the detectors write the confidence before the no-data check
answer_question_checks_late(self, question) ==
    IF self.data = <<>>
    THEN Return(IF is_ratio_question(question)
                THEN set_confidence(self, RatioConfidence)
                ELSE IF is_multi_column_question(question)
                THEN set_confidence(self, MultiColumnConfidence)
                ELSE self,
                Answer("NoData", TRUE, NoDataMessage, <<>>, <<>>), None)
    ELSE answer_loaded(self, question)

answer_question(self, question) ==
    IF self.data = <<>>
    THEN Return(self, Answer("NoData", TRUE, NoDataMessage, <<>>, <<>>), None)
    ELSE answer_loaded(self, question)

\* DataInsightAI(db, table_name)
construct(table) ==
    [data |-> load_data(table).data,
     columns |-> load_data(table).columns,
     numeric_cols |-> load_data(table).numeric_cols,
     confidence |-> DefaultConfidence]

----------------------------------------------------------------------------
(* Questions put to the engine *)

w_total == <<"t","o","t","a","l">>
w_revenue == <<"r","e","v","e","n","u","e">>
w_profit == <<"p","r","o","f","i","t">>
w_margin == <<"m","a","r","g","i","n">>
w_highest == <<"h","i","g","h","e","s","t">>
w_lowest == <<"l","o","w","e","s","t">>
w_average == <<"a","v","e","r","a","g","e">>
w_count == <<"c","o","u","n","t">>
w_trend == <<"t","r","e","n","d">>
w_compare == <<"c","o","m","p","a","r","e">>
w_vs == <<"v","s">>
w_date == <<"d","a","t","e">>
w_earnings == <<"e","a","r","n","i","n","g","s">>
w_cost == <<"c","o","s","t">>
w_region == <<"r","e","g","i","o","n">>
w_id == <<"i","d">>
w_price == <<"p","r","i","c","e">>

WordsIntent ==
    {w_highest, w_lowest, w_total, w_average, w_count, w_trend}

WordsPrecedence ==
    {w_margin, w_profit, w_vs, w_compare, w_total, w_revenue}

WordsColumns ==
    {w_trend, w_date, w_cost}

WordsMulti ==
    {w_compare, w_revenue, w_profit, w_id}

WordsComparison ==
    {w_revenue, w_cost, w_profit, w_vs}

WordsRatio ==
    {w_margin, w_profit, w_revenue, w_cost, w_vs}

WordsResolver ==
    {w_date, w_earnings, w_cost}

p_what_is_the_total_revenue == <<"W","h","a","t"," ","i","s"," ","t","h","e"," ","t","o","t","a","l"," ","r","e","v","e","n","u","e","?">>
p_revenue_and_cost == <<"r","e","v","e","n","u","e"," ","a","n","d"," ","c","o","s","t">>
p_revenue_vs_cost == <<"r","e","v","e","n","u","e"," ","v","s"," ","c","o","s","t">>
p_compare_revenue_and_profit == <<"C","o","m","p","a","r","e"," ","r","e","v","e","n","u","e"," ","a","n","d"," ","p","r","o","f","i","t">>
p_total_rows == <<"t","o","t","a","l"," ","r","o","w","s"," ","o","f"," ","r","e","v","e","n","u","e">>
p_how_many == <<"h","o","w"," ","m","a","n","y"," ","r","e","c","o","r","d","s">>
p_compared_to == <<"r","e","v","e","n","u","e"," ","c","o","m","p","a","r","e","d"," ","t","o"," ","c","o","s","t">>
p_unit_price_and_quantity == <<"a","v","e","r","a","g","e"," ","u","n","i","t"," ","p","r","i","c","e"," ","a","n","d"," ","q","u","a","n","t","i","t","y">>
p_padded == <<" ","t","o","t","a","l"," ","r","e","v","e","n","u","e"," ">>
p_highest_region == <<"h","i","g","h","e","s","t"," ","r","e","g","i","o","n">>
p_versus == <<"p","r","o","f","i","t"," ","v","e","r","s","u","s"," ","c","o","s","t">>
p_margin_of_profit == <<"m","a","r","g","i","n"," ","o","f"," ","p","r","o","f","i","t"," ","a","n","d"," ","r","e","v","e","n","u","e">>
p_Profit_Margin == <<"P","r","o","f","i","t"," ","M","a","r","g","i","n">>
p_blank == <<" ">>
p_performance_trend == <<"p","e","r","f","o","r","m","a","n","c","e"," ","t","r","e","n","d">>
p_show_revenue == <<"s","h","o","w"," ","r","e","v","e","n","u","e">>
p_compare_total_vs == <<"c","o","m","p","a","r","e"," ","t","o","t","a","l"," ","r","e","v","e","n","u","e"," ","v","s"," ","c","o","s","t">>

p_compare == <<"c","o","m","p","a","r","e">>
p_name == <<"n","a","m","e">>
p_Date_Trend == <<"D","a","t","e"," ","T","r","e","n","d">>
p_average_date == <<"a","v","e","r","a","g","e"," ","d","a","t","e">>
p_trend_region == <<"t","r","e","n","d"," ","r","e","g","i","o","n">>
p_count_date == <<"c","o","u","n","t"," ","d","a","t","e">>
p_how_many_city == <<"h","o","w"," ","m","a","n","y"," ","c","i","t","y">>

p_compare_all == <<"c","o","m","p","a","r","e"," ","i","d",","," ","r","e","v","e","n","u","e",","," ","c","o","s","t"," ","a","n","d"," ","p","r","o","f","i","t">>
p_profit_and_revenue == <<"p","r","o","f","i","t"," ","a","n","d"," ","r","e","v","e","n","u","e">>
p_id_and_profit == <<"i","d"," ","a","n","d"," ","p","r","o","f","i","t">>

PhrasesMulti ==
    {p_compare_all, p_profit_and_revenue, p_id_and_profit, p_revenue_and_cost,
     p_unit_price_and_quantity, p_compare_revenue_and_profit, p_compare}

p_three_columns == <<"r","e","v","e","n","u","e"," ","v","s"," ","c","o","s","t"," ","v","s"," ","p","r","o","f","i","t">>

PhrasesComparison ==
    {p_three_columns, p_compared_to, p_versus, p_revenue_vs_cost, p_name}

p_margin_revenue_vs_cost == <<"p","r","o","f","i","t"," ","m","a","r","g","i","n"," ","o","f"," ","r","e","v","e","n","u","e"," ","v","s"," ","c","o","s","t">>
p_cost_revenue_ratio == <<"C","o","s","t"," ","t","o"," ","r","e","v","e","n","u","e"," ","r","a","t","i","o">>
p_total_percent == <<"t","o","t","a","l"," ","p","e","r","c","e","n","t","a","g","e">>

PhrasesRatio ==
    {p_margin_revenue_vs_cost, p_cost_revenue_ratio, p_total_percent, p_versus,
     p_revenue_vs_cost,
     p_Profit_Margin, p_revenue_and_cost, p_what_is_the_total_revenue}

\* the questions asked while the backing table is being written
QuestionsStore ==
    {p_what_is_the_total_revenue, p_Profit_Margin, p_revenue_and_cost, p_name,
     w_trend, w_count}

PhrasesResolver ==
    {p_what_is_the_total_revenue, p_name, p_highest_region, w_region, p_Date_Trend,
     w_price, w_trend}

PhrasesColumns ==
    {p_what_is_the_total_revenue, p_revenue_and_cost, p_compare, p_name,
     p_Date_Trend, p_highest_region, p_unit_price_and_quantity, p_Profit_Margin,
     p_average_date, p_trend_region, w_region, p_count_date, p_how_many_city}

Phrases ==
    {p_what_is_the_total_revenue, p_revenue_and_cost, p_revenue_vs_cost,
     p_compare_revenue_and_profit, p_total_rows, p_how_many, p_compared_to,
     p_unit_price_and_quantity, p_padded, p_highest_region, p_versus,
     p_margin_of_profit, p_Profit_Margin, p_blank, p_performance_trend,
     p_show_revenue, p_compare_total_vs}

\* the questions of 1..MaxWords words over a vocabulary
Combos(words) == {join(ws) : ws \in SeqsUpTo(words, MaxWords) \ {<<>>}}

\* the questions of a session, by the topic the session is about
QuestionsIntent == Combos(WordsIntent) \cup Phrases
QuestionsPrecedence == Combos(WordsPrecedence) \cup Phrases
QuestionsColumns == Combos(WordsColumns) \cup PhrasesColumns
QuestionsResolver == Combos(WordsResolver) \cup PhrasesResolver
QuestionsMulti == Combos(WordsMulti) \cup PhrasesMulti
QuestionsRatio == Combos(WordsRatio) \cup PhrasesRatio
QuestionsComparison == Combos(WordsComparison) \cup PhrasesComparison

Topics == {"intent", "precedence", "columns", "resolver", "multi", "comparison", "ratio", "store"}

QuestionsOf(t) ==
    IF t = "intent" THEN QuestionsIntent
    ELSE IF t = "precedence" THEN QuestionsPrecedence
    ELSE IF t = "columns" THEN QuestionsColumns
    ELSE IF t = "resolver" THEN QuestionsResolver
    ELSE IF t = "multi" THEN QuestionsMulti
    ELSE IF t = "ratio" THEN QuestionsRatio
    ELSE IF t = "comparison" THEN QuestionsComparison
    ELSE QuestionsStore

\* the tables a session of a topic is held over
TablesOf(t) ==
    IF t = "columns"
    THEN {AbsentTable} \cup TablesFinancialFew \cup TablesUpload \cup TablesText
    ELSE IF t = "resolver"
    THEN {t2 \in TablesFinancialFew \cup TablesUpload \cup TablesText : t2.rows # <<>>}
    ELSE IF t = "comparison"
    THEN {AbsentTable} \cup TablesFinancialFew \cup TablesUpload \cup TablesText
    ELSE IF t = "ratio" THEN {AbsentTable} \cup TablesRatio
    ELSE IF t = "multi"
    THEN {AbsentTable} \cup TablesUploadFinancial \cup TablesUpload
    ELSE IF t = "store" THEN {AbsentTable} \cup TablesFinancialFew \cup TablesText
    ELSE IF t = "intent" THEN {AbsentTable} \cup TablesFinancialFew
    ELSE {AbsentTable} \cup TablesFinancial

\* the rows that can be inserted into a table, by its columns
RowPool(cols) ==
    IF cols = ColumnsFinancial THEN {r \in RowsFinancial : r[2] \in {Num(100), Num(0)}}
    ELSE IF cols = ColumnsText THEN RowsText
    ELSE {}

Questions == UNION {QuestionsOf(t) : t \in Topics}

----------------------------------------------------------------------------
(* The state machine *)

VARIABLES
    topic,          \* the vocabulary of the session's questions
    table,          \* the backing table the engine was constructed over
    data,           \* self.data: the rows of the snapshot
    columns,        \* self.columns
    numeric_cols,   \* self.numeric_cols
    confidence,     \* self.confidence, in hundredths
    question,       \* the argument of the last call, NoQuestion before it
    answer,         \* the text the last call returned
    metric_col,     \* the column the resolver chose in the last call
    previous,       \* the text of the call before, when it asked the same question
    after_failure,  \* an earlier call on this instance returned a failure
    last_rm,        \* generator of the latest Ratio or MultiColumn answer
    store,          \* the backing table as it is now in the database
    pc,             \* position of the constructor: "new", "fetched", "ready"
    results         \* _load_data's local variable results

vars == <<topic, table, data, columns, numeric_cols, confidence, question, answer,
          metric_col, previous, after_failure, last_rm, store, pc, results>>

NoQuestion == <<"-">>
NoAnswer == Answer("-", FALSE, "-", <<>>, <<>>)

\* mutation: the instance is a live view of the backing table
Self_live ==
    [data |-> load_data(store).data, columns |-> load_data(store).columns,
     numeric_cols |-> load_data(store).numeric_cols, confidence |-> confidence]

\* the engine instance, as the record of its fields
Self == [data |-> data, columns |-> columns, numeric_cols |-> numeric_cols,
         confidence |-> confidence]

InitEngine ==
    /\ table \in TablesOf(topic)
    /\ data = construct(table).data
    /\ columns = construct(table).columns
    /\ numeric_cols = construct(table).numeric_cols
    /\ confidence = construct(table).confidence
    /\ question = NoQuestion
    /\ answer = NoAnswer
    /\ metric_col = None
    /\ previous = NoAnswer
    /\ after_failure = FALSE
    /\ last_rm = "none"
    /\ store = table
    /\ pc = "ready"
    /\ results = <<>>

Init == topic \in Topics /\ InitEngine

\* one call of answer_question: a new question once the caller has taken the
\* last answer, or the same question again, once
AnswerQuestion(q) ==
    /\ pc = "ready"
    /\ \/ question = NoQuestion
       \/ q = question /\ previous = NoAnswer
    /\ \E result \in {answer_question(Self, q)} :
           /\ data' = result.self.data
           /\ columns' = result.self.columns
           /\ numeric_cols' = result.self.numeric_cols
           /\ confidence' = result.self.confidence
           /\ answer' = result.text
           /\ metric_col' = result.metric_col
           /\ last_rm' = IF result.text.gen \in {"Ratio", "MultiColumn"}
                         THEN result.text.gen ELSE last_rm
    /\ question' = q
    /\ previous' = IF question = NoQuestion THEN NoAnswer ELSE answer
    /\ after_failure' = (after_failure \/ (question # NoQuestion /\ answer.failure))
    /\ UNCHANGED <<topic, table, store, pc, results>>

\* the caller takes the answer (app.py appends it to the chat history) and
\* is ready to ask again
TakeAnswer ==
    /\ question # NoQuestion
    /\ question' = NoQuestion
    /\ answer' = NoAnswer
    /\ metric_col' = None
    /\ previous' = NoAnswer
    /\ after_failure' = (after_failure \/ answer.failure)
    /\ UNCHANGED <<topic, table, data, columns, numeric_cols, confidence, last_rm,
                   store, pc, results>>

Next ==
    \/ \E q \in QuestionsOf(topic) : AnswerQuestion(q)
    \/ TakeAnswer

Spec == Init /\ [][Next]_vars

\* sessions about one topic
InitIntent ==
    /\ topic = "intent"
    /\ InitEngine

InitPrecedence ==
    /\ topic = "precedence"
    /\ InitEngine

InitColumns ==
    /\ topic = "columns"
    /\ InitEngine

InitResolver ==
    /\ topic = "resolver"
    /\ InitEngine

InitMulti ==
    /\ topic = "multi"
    /\ InitEngine

InitRatio ==
    /\ topic = "ratio"
    /\ InitEngine

\* Database.insert_many: a row is appended to the backing table
InsertMany(row) ==
    /\ store.exists
    /\ Len(store.rows) < MaxRows
    /\ row \in RowPool(store.columns)
    /\ store' = [store EXCEPT !.rows = Append(@, row)]
    /\ UNCHANGED <<topic, table, data, columns, numeric_cols, confidence, question,
                   answer, metric_col, previous, after_failure, last_rm, pc, results>>

\* Database.clear_data: DELETE FROM the backing table
ClearData ==
    /\ store.exists
    /\ store.rows # <<>>
    /\ store' = [store EXCEPT !.rows = <<>>]
    /\ UNCHANGED <<topic, table, data, columns, numeric_cols, confidence, question,
                   answer, metric_col, previous, after_failure, last_rm, pc, results>>

\* DatasetManager.delete_dataset: DROP TABLE
DeleteDataset ==
    /\ store.exists
    /\ store' = AbsentTable
    /\ UNCHANGED <<topic, table, data, columns, numeric_cols, confidence, question,
                   answer, metric_col, previous, after_failure, last_rm, pc, results>>

\* an upload under the name of the backing table: CREATE TABLE IF NOT EXISTS
\* with the columns of the file, then its rows
Upload(t) ==
    /\ ~store.exists
    /\ t.exists
    /\ store' = t
    /\ UNCHANGED <<topic, table, data, columns, numeric_cols, confidence, question,
                   answer, metric_col, previous, after_failure, last_rm, pc, results>>

\* _load_data, lines 38-43: the SELECT; no rows (or a store error) ends the
\* load with an empty frame
LoadSelect ==
    /\ pc = "new"
    /\ table' = store
    /\ IF execute(store) = <<>>
       THEN /\ pc' = "ready"
            /\ results' = <<>>
       ELSE /\ pc' = "fetched"
            /\ results' = execute(store)
    /\ UNCHANGED <<topic, data, columns, numeric_cols, confidence, question, answer,
                   metric_col, previous, after_failure, last_rm, store>>

\* _load_data, lines 46-56: the column names are read from the table as it is
\* now, and the frame is built from the rows fetched before
LoadFrame ==
    /\ pc = "fetched"
    /\ \E frame \in {build_frame(results, table_info(store))} :
           /\ data' = frame.data
           /\ columns' = frame.columns
           /\ numeric_cols' = frame.numeric_cols
    /\ pc' = "ready"
    /\ results' = <<>>
    /\ UNCHANGED <<topic, table, confidence, question, answer, metric_col, previous,
                   after_failure, last_rm, store>>

Write ==
    \/ \E row \in RowsFinancial \cup RowsText : InsertMany(row)
    \/ ClearData
    \/ DeleteDataset
    \/ \E t \in TablesOf(topic) : Upload(t)

\* an engine in use while other sessions write its backing table
NextStore ==
    \/ \E q \in QuestionsOf(topic) : AnswerQuestion(q)
    \/ TakeAnswer
    \/ Write

\* an engine under construction and in use while other sessions write
NextLoad ==
    \/ LoadSelect
    \/ LoadFrame
    \/ \E q \in QuestionsOf(topic) : AnswerQuestion(q)
    \/ TakeAnswer
    \/ Write

InitStore ==
    /\ topic = "store"
    /\ InitEngine

\* __init__ before its call of _load_data (lines 27-32)
InitLoad ==
    /\ topic = "store"
    /\ store \in TablesOf(topic)
    /\ table = store
    /\ pc = "new"
    /\ results = <<>>
    /\ data = <<>>
    /\ columns = <<>>
    /\ numeric_cols = <<>>
    /\ confidence = DefaultConfidence
    /\ question = NoQuestion
    /\ answer = NoAnswer
    /\ metric_col = None
    /\ previous = NoAnswer
    /\ after_failure = FALSE
    /\ last_rm = "none"

\* a call of _answer_comparison itself, with a column of the frame (None when
\* it has none) and a question text
AnswerComparison(col, q) ==
    /\ pc = "ready"
    /\ question = NoQuestion
    /\ question' = q
    /\ metric_col' = col
    /\ answer' = answer_comparison(Self, col, q)
    /\ UNCHANGED <<topic, table, data, columns, numeric_cols, confidence, previous,
                   after_failure, last_rm, store, pc, results>>

\* the generator used on its own
NextComparison ==
    \/ \E q \in QuestionsOf(topic), col \in {first_of(columns \o <<None>>)} :
           AnswerComparison(col, q)
    \/ TakeAnswer

InitComparison ==
    /\ topic = "comparison"
    /\ InitEngine

SpecComparison == InitComparison /\ [][NextComparison]_vars

SpecStore == InitStore /\ [][NextStore]_vars
SpecLoad == InitLoad /\ [][NextLoad]_vars

SpecIntent == InitIntent /\ [][Next]_vars
SpecPrecedence == InitPrecedence /\ [][Next]_vars
SpecColumns == InitColumns /\ [][Next]_vars
SpecResolver == InitResolver /\ [][Next]_vars
SpecMulti == InitMulti /\ [][Next]_vars
SpecRatio == InitRatio /\ [][Next]_vars

----------------------------------------------------------------------------
(* Properties *)

Answered == question # NoQuestion

\* the keyword sets as the specification states them
RatioKeywords ==
    {<<"r","a","t","i","o">>, <<"p","e","r","c","e","n","t","a","g","e">>,
     <<"p","e","r","c","e","n","t">>, <<"m","a","r","g","i","n">>,
     <<"d","i","v","i","d","e","d">>, <<"p","e","r">>, <<"v","s">>,
     <<"v","e","r","s","u","s">>}

MultiColumnMarkers ==
    {<<" ","a","n","d"," ">>, <<" ","v","s"," ">>, <<"c","o","m","p","a","r","e">>}

HasRatioKeyword(q) == \E k \in RatioKeywords : contains(lower(q), k)
HasMultiColumnMarker(q) == \E k \in MultiColumnMarkers : contains(lower(q), k)

AggregateGenerators == {"Max", "Min", "Sum", "Avg", "Count", "Trend", "Comparison", "General"}

\* the sum of the numbers of a column of the snapshot, row by row
RECURSIVE RowsSum(_, _)
RowsSum(rows, i) ==
    IF rows = <<>> THEN 0
    ELSE (IF Head(rows)[i].t = "num" THEN Head(rows)[i].n ELSE 0) + RowsSum(Tail(rows), i)

ColumnSum(col) == RowsSum(data, index_of(columns, col))

ColumnHasMissing(col) ==
    \E r \in 1..Len(data) : data[r][index_of(columns, col)].t = "null"

\* n/d to the nearest integer, for d of either sign
Rounded(n, d) == IF d > 0 THEN RoundDiv(n, d) ELSE RoundDiv(-n, -d)

\* C1: on an empty snapshot every question gets the fixed no-data message;
\* no detector, resolver or generator has run: the text is no generator's,
\* no column was resolved and the confidence is the one of construction.
C1_NoDataOnEmptySnapshot ==
    (Answered /\ data = <<>>) =>
        /\ answer = Answer("NoData", TRUE,
                           "No data available. Please upload a CSV file first.", <<>>, <<>>)
        /\ metric_col = None
        /\ confidence = 100

\* an empty snapshot was asked a question that holds a ratio keyword and a
\* multi-column marker
C1_Witness ==
    /\ Answered
    /\ data = <<>>
    /\ HasRatioKeyword(question)
    /\ HasMultiColumnMarker(question)
    /\ answer.gen = "NoData"

\* C2: a call that repeats the question of the call before returns the same
\* text, and leaves every field of the instance but the confidence as it was.
C2_Idempotent ==
    [][(Answered /\ question' = question) =>
            /\ answer' = answer
            /\ data' = data
            /\ columns' = columns
            /\ numeric_cols' = numeric_cols]_vars

\* a Ratio answer with figures was returned twice in a row
C2_Witness ==
    /\ Answered
    /\ previous # NoAnswer
    /\ previous.figs # <<>>
    /\ answer = previous
    /\ answer.gen = "Ratio"

\* C3: whatever was asked before, failures included, the text returned for a
\* question is the text a freshly constructed instance over the same table
\* returns for it.
C3_FailureIsolation ==
    Answered => answer = answer_question(construct(table), question).text

\* a question answered with figures after an earlier question failed
C3_Witness ==
    /\ Answered
    /\ after_failure
    /\ ~answer.failure
    /\ answer.figs # <<>>

C5_IntentPrecedence ==
    (Answered /\ data # <<>>) =>
        /\ HasRatioKeyword(question) =>
              answer.gen = "Ratio" /\ confidence = 90
        /\ (~HasRatioKeyword(question) /\ HasMultiColumnMarker(question)) =>
              answer.gen = "MultiColumn" /\ confidence = 85
        /\ (metric_col # None \/ answer.gen \in AggregateGenerators \cup {"Unresolved"}) =>
              ~HasRatioKeyword(question) /\ ~HasMultiColumnMarker(question)

\* a question with a ratio keyword, a multi-column marker and an aggregate
\* keyword was answered by the Ratio generator
C5_Witness ==
    /\ Answered
    /\ data # <<>>
    /\ HasRatioKeyword(question)
    /\ HasMultiColumnMarker(question)
    /\ is_sum_question(lower(question))
    /\ answer.gen = "Ratio"

\* the first keyword group, in the stated order, that matches a lower-cased
\* question
FirstGroup(q) ==
    IF any_in(q, max_keywords) THEN "Max"
    ELSE IF any_in(q, min_keywords) THEN "Min"
    ELSE IF any_in(q, sum_keywords) THEN "Sum"
    ELSE IF any_in(q, avg_keywords) THEN "Avg"
    ELSE IF any_in(q, count_keywords) THEN "Count"
    ELSE IF any_in(q, trend_keywords) THEN "Trend"
    ELSE IF \E k \in {s_vs_spaced, s_compared_to, s_versus_spaced} : contains(q, k)
         THEN "Comparison"
    ELSE "General"

\* C6: once a column is resolved, the answer is written by the generator of
\* the first keyword group, in the order Max, Min, Sum, Avg, Count, Trend,
\* Comparison, that matches the lower-cased question, by General when none does.
C6_FirstKeywordGroupWins ==
    (Answered /\ metric_col # None) => answer.gen = FirstGroup(lower(question))

\* a question matching the Sum and the Max group was answered by Max
C6_Witness ==
    /\ Answered
    /\ metric_col # None
    /\ any_in(lower(question), sum_keywords)
    /\ any_in(lower(question), max_keywords)
    /\ answer.gen = "Max"

HasProfitMarginPhrase(q) ==
    \/ contains(lower(q), <<"p","r","o","f","i","t"," ","m","a","r","g","i","n">>)
    \/ /\ contains(lower(q), <<"m","a","r","g","i","n">>)
       /\ contains(lower(q), <<"p","r","o","f","i","t">>)

\* C7: a question with a profit-margin phrase, over numeric columns profit and
\* revenue with sum(revenue) # 0, is answered with the margin
\* 100 * sum(profit) / sum(revenue), printed with 2 decimals.
C7_ProfitMargin ==
    (/\ Answered
     /\ HasProfitMarginPhrase(question)
     /\ member(numeric_cols, c_profit)
     /\ member(numeric_cols, c_revenue)
     /\ ColumnSum(c_revenue) # 0) =>
        /\ answer.gen = "Ratio"
        /\ answer.text = "Profit Margin Analysis"
        /\ answer.figs[1] =
              Fig("num", Rounded(100 * 100 * ColumnSum(c_profit), ColumnSum(c_revenue)))

\* the margin of a table whose profit is not a whole percentage of revenue
C7_Witness ==
    /\ Answered
    /\ HasProfitMarginPhrase(question)
    /\ answer.text = "Profit Margin Analysis"
    /\ (100 * ColumnSum(c_profit)) % ColumnSum(c_revenue) # 0

\* C8: for a numeric column without missing values the Sum answer's
\* 'Average per record' is its 'Sum' divided by its 'Records', and 'Records'
\* is the number of rows of the snapshot.
C8_SumAverageIsSumOverRecords ==
    (/\ Answered
     /\ answer.gen = "Sum"
     /\ ~answer.failure
     /\ ~ColumnHasMissing(metric_col)) =>
        /\ answer.figs[2] = Fig("num", Len(data))
        /\ answer.figs[3] = Fig("num", Rounded(answer.figs[1].v, answer.figs[2].v))

\* a Sum answer over several rows whose average is not a whole number
C8_Witness ==
    /\ Answered
    /\ answer.gen = "Sum"
    /\ ~answer.failure
    /\ ~ColumnHasMissing(metric_col)
    /\ Len(data) > 1
    /\ answer.figs[1].v % (100 * Len(data)) # 0

\* the case of C9
C9_Case ==
    /\ question = p_what_is_the_total_revenue
    /\ columns = <<c_date, c_revenue, c_cost, c_profit>>
    /\ numeric_cols = <<c_revenue, c_cost, c_profit>>

\* C9: for 'What is the total revenue?' over columns (date, revenue, cost,
\* profit) the resolver selects revenue, whose score is strictly greater than
\* the score of every other numeric column.
C9_ResolvesRevenue ==
    C9_Case =>
        /\ metric_col = c_revenue
        /\ \A c \in {c_cost, c_profit} :
              column_score(c_revenue, strip(lower(question)),
                           question_words(strip(lower(question))))
              > column_score(c, strip(lower(question)),
                             question_words(strip(lower(question))))

C9_Witness == C9_Case /\ metric_col = c_revenue /\ answer.gen = "Sum"

\* the two-row dataset of the worked example
ExampleData ==
    /\ columns = <<c_date, c_revenue, c_cost, c_profit>>
    /\ data = << <<Text("2024-01-01"), Num(100), Num(40), Num(60)>>,
                 <<Text("2024-01-02"), Num(200), Num(80), Num(120)>> >>

\* C10: on the example, 'total revenue' is answered by Sum on revenue with sum
\* 300.00 and average 150.00, and 'profit margin' by Ratio with margin 60.00%.
C10_WorkedExample ==
    ExampleData =>
        /\ question = <<"t","o","t","a","l"," ","r","e","v","e","n","u","e">> =>
              /\ answer.gen = "Sum"
              /\ metric_col = c_revenue
              /\ answer.names = <<heading(c_revenue)>>
              /\ answer.figs[1] = Fig("num", 30000)
              /\ answer.figs[3] = Fig("num", 15000)
        /\ question = <<"p","r","o","f","i","t"," ","m","a","r","g","i","n">> =>
              /\ answer.gen = "Ratio"
              /\ answer.text = "Profit Margin Analysis"
              /\ answer.figs[1] = Fig("num", 6000)

\* 'profit margin' was answered on the example with the margin 60.00
C10_Witness ==
    /\ ExampleData
    /\ question = <<"p","r","o","f","i","t"," ","m","a","r","g","i","n">>
    /\ answer.figs[1] = Fig("num", 6000)

----------------------------------------------------------------------------
(* Failures *)

\* C11: a question dispatched to the Trend generator over a snapshot of fewer
\* than 2 rows, or with a resolved column that is not numeric, is answered by
\* the 'Cannot analyze trend' failure naming the column, with no figure (no
\* row value) in it.
C11_TrendFailure ==
    (Answered /\ answer.gen = "Trend"
        /\ (Len(data) < 2 \/ ~member(numeric_cols, metric_col)))
    => answer = Answer("Trend", TRUE, "Cannot analyze trend for column",
                       <<metric_col>>, <<>>)

C11_Witness ==
    /\ Answered
    /\ Len(data) = 1
    /\ member(numeric_cols, metric_col)
    /\ is_trend_question(strip(lower(question)))
    /\ answer.gen = "Trend"
    /\ answer.failure
    /\ answer.figs = <<>>

GeneratorNames ==
    {"NoData", "Ratio", "MultiColumn", "Unresolved", "Max", "Min", "Sum", "Avg",
     "Count", "Trend", "Comparison", "General"}

ErrorPrefixes == {"Error", "Error calculating ratio", "Error in comparison"}

\* C12: every call returns a text written by one of the generators (no
\* exception leaves answer_question), and a text that reports a caught error
\* begins with the failure marker.
C12_AlwaysText ==
    Answered =>
        /\ answer.gen \in GeneratorNames
        /\ answer.text \in ErrorPrefixes => answer.failure

\* a frame with rows but no numeric column, where the resolver has neither a
\* best match nor a first numeric column to return
C12_Witness ==
    /\ Answered
    /\ data # <<>>
    /\ numeric_cols = <<>>
    /\ ~is_ratio_question(question)
    /\ ~is_multi_column_question(question)
    /\ metric_col = None
    /\ answer.gen = "Unresolved"

----------------------------------------------------------------------------
(* The snapshot and the backing store *)

\* a step that is a call of answer_question
CallStep ==
    /\ question' # NoQuestion
    /\ question' # question \/ previous' # previous

\* C13: while other sessions insert into, clear, drop and re-create the
\* backing table, the snapshot of a constructed engine stays what the table
\* held at construction, every answer is the answer computed from those
\* contents, and no call changes the backing table.
C13_SnapshotIsolation ==
    /\ [](/\ data = construct(table).data
          /\ columns = construct(table).columns
          /\ numeric_cols = construct(table).numeric_cols)
    /\ [](Answered => answer = answer_question(construct(table), question).text)
    /\ [][CallStep => store' = store]_vars

\* an answer with figures, given after the backing table was emptied or dropped
C13_Witness ==
    /\ Answered
    /\ answer.gen = "Sum"
    /\ ~answer.failure
    /\ table.rows # <<>>
    /\ execute(store) = <<>>

\* the load failed: the SELECT met no table (Database.execute caught the store
\* error), or rows were fetched and an exception ended the load
LoadFailed ==
    /\ pc = "ready"
    /\ \/ ~table.exists
       \/ execute(table) # <<>> /\ data = <<>>

\* C14: after a failed load the engine is constructed and its snapshot has no
\* rows, no columns and no numeric columns.
C14_FailedLoadIsEmpty ==
    LoadFailed => data = <<>> /\ columns = <<>> /\ numeric_cols = <<>>

----------------------------------------------------------------------------
(* Zero denominators *)

\* the denominator of the percentage an answer reports is zero: the mean of
\* the column (Max, Min, Avg), its sum (Sum), its first value (Trend)
ZeroDenominator ==
    /\ member(numeric_cols, metric_col)
    /\ \/ answer.gen \in {"Max", "Min", "Avg", "Sum"} /\ ColumnSum(metric_col) = 0
       \/ /\ answer.gen = "Trend"
          /\ data[1][index_of(columns, metric_col)] = Num(0)

\* C15: an answer whose percentage has a zero denominator reports 0 for it
\* (the percentage is the fourth figure of a Max, Min, Sum, Avg and Trend
\* answer), or is a failure text; it is never inf or nan.
C15_ZeroDenominator ==
    (Answered /\ ZeroDenominator /\ ~answer.failure)
    => answer.figs[4] = Fig("num", 0)

----------------------------------------------------------------------------
(* The resolver *)

\* the call went past both detectors and ran the resolver
ResolverRan ==
    /\ Answered
    /\ data # <<>>
    /\ ~HasRatioKeyword(question)
    /\ ~HasMultiColumnMarker(question)

SuggestionsText == "Available numeric columns to ask about"
NoNumericText == "No numeric data found in this dataset"

\* C16 as stated: when the resolver finds no column, the answer lists the
\* numeric columns and gives an example question with the first of them.
C16_UnresolvedListsColumns ==
    (ResolverRan /\ metric_col = None)
    => /\ answer.text = SuggestionsText
       /\ numeric_cols # <<>>
       /\ answer.names = map_heading(numeric_cols) \o <<numeric_cols[1]>>

\* C16, amended: the resolver finds no column only over a snapshot without
\* numeric columns, and the answer is then the failure text 'No numeric data
\* found in this dataset'; the text that lists the numeric columns is never
\* returned.
C16_UnresolvedHasNoNumericColumn ==
    /\ (ResolverRan /\ metric_col = None)
       => /\ numeric_cols = <<>>
          /\ answer = Answer("Unresolved", TRUE, NoNumericText, <<>>, <<>>)
    /\ Answered => answer.text # SuggestionsText

C16_Witness ==
    /\ ResolverRan
    /\ metric_col = None
    /\ columns = ColumnsText
    /\ answer.text = NoNumericText

----------------------------------------------------------------------------
(* Failure classes *)

\* the numeric columns a question mentions, by name or by name with the
\* underscores read as spaces
Mentioned(q) ==
    {i \in 1..Len(numeric_cols) :
        \/ contains(lower(q), lower(numeric_cols[i]))
        \/ contains(lower(q), underscores_to_spaces(lower(numeric_cols[i])))}

NoDataReturned == answer.gen = "NoData"

ColumnNotResolvedReturned == answer.gen = "Unresolved"

WrongColumnTypeReturned ==
    /\ answer.gen \in {"Max", "Min", "Sum", "Avg", "Trend"}
    /\ ~member(numeric_cols, metric_col)

InsufficientColumnsReturned ==
    \/ answer.gen = "Comparison" /\ Len(numeric_cols) < 2
    \/ answer.gen = "MultiColumn" /\ Cardinality(Mentioned(question)) < 2

ComputationErrorReturned == answer.text \in ErrorPrefixes

\* the texts of the answers that report what was asked for
SuccessTexts ==
    {"Highest", "Lowest", "Total", "Average", "Data Count", "INCREASING",
     "DECREASING", "STABLE", "Comparison", "Overview", "Showing data for column",
     "Profit Margin Analysis", "Revenue to Cost Ratio", "Comparison Analysis"}

\* C17: an answer of any of the five failure classes begins with the failure
\* marker, and an answer that reports what was asked for does not.
C17_FailureMarker ==
    Answered =>
        /\ (\/ NoDataReturned
            \/ ColumnNotResolvedReturned
            \/ WrongColumnTypeReturned
            \/ InsufficientColumnsReturned
            \/ ComputationErrorReturned) => answer.failure
        /\ answer.text \in SuccessTexts => ~answer.failure

\* an average asked of the text column date
C17_Witness ==
    /\ Answered
    /\ answer.gen = "Avg"
    /\ metric_col = c_date
    /\ WrongColumnTypeReturned
    /\ answer.failure

----------------------------------------------------------------------------
(* Resolver: selection order, ties, synonym points *)

\* what the resolver is called with, and the tokens it keeps
Asked == strip(lower(question))
Tokens == question_words(Asked)

\* the score of the i-th numeric column
ScoreOf(i) == column_score(numeric_cols[i], Asked, Tokens)

Scores == [i \in 1..Len(numeric_cols) |-> ScoreOf(i)]

\* the numeric columns with a positive score that no other exceeds
LeadersOf(sc) ==
    {i \in DOMAIN sc : sc[i] > 0 /\ \A j \in DOMAIN sc : sc[j] <= sc[i]}

Leaders == LeadersOf(Scores)

\* the columns that a token of more than 3 characters contains or is
\* contained in
TokenHits ==
    {i \in 1..Len(columns) :
        \E j \in 1..Len(Tokens) :
            /\ Len(Tokens[j]) > 3
            /\ \/ contains(lower(columns[i]), Tokens[j])
               \/ contains(Tokens[j], lower(columns[i]))}

Least(S) == CHOOSE i \in S : \A j \in S : i <= j

\* C18: the resolver returns a numeric column of highest positive score; if
\* no numeric column scores above 0, the first column in column order that a
\* token of more than 3 characters matches; failing that the first numeric
\* column, and failing that None.  The result is None or a column.
C18_SelectionOrder ==
    ResolverRan =>
        \E leaders \in {Leaders}, hits \in {TokenHits} :
            /\ leaders # {} => \E i \in leaders : metric_col = numeric_cols[i]
            /\ (leaders = {} /\ hits # {}) => metric_col = columns[Least(hits)]
            /\ (leaders = {} /\ hits = {} /\ numeric_cols # <<>>)
               => metric_col = numeric_cols[1]
            /\ (leaders = {} /\ hits = {} /\ numeric_cols = <<>>)
               => metric_col = None
            /\ metric_col = None \/ member(columns, metric_col)

\* the scan over all columns decides: a text column, with numeric columns
\* present
C18_Witness ==
    /\ ResolverRan
    /\ numeric_cols # <<>>
    /\ Leaders = {}
    /\ TokenHits # {}
    /\ metric_col = columns[Least(TokenHits)]
    /\ ~member(numeric_cols, metric_col)

\* C19: every score is a non-negative integer, and among the numeric columns
\* that share the highest positive score the resolver returns the first in
\* numeric-column order; 'earnings', a synonym of revenue and of profit,
\* resolves to revenue.
C19_TiesToFirst ==
    ResolverRan =>
        /\ \E sc \in {Scores} :
               /\ \A i \in DOMAIN sc : sc[i] \in Nat
               /\ LeadersOf(sc) # {} => metric_col = numeric_cols[Least(LeadersOf(sc))]
        /\ (Asked = w_earnings /\ member(numeric_cols, c_revenue))
           => metric_col = c_revenue

C19_Witness ==
    /\ ResolverRan
    /\ Asked = w_earnings
    /\ member(numeric_cols, c_revenue)
    /\ member(numeric_cols, c_profit)
    /\ Cardinality(Leaders) = 2
    /\ metric_col = c_revenue

\* the synonyms of a column: the key and the values of every entry of the
\* table whose key is the column's name or whose values list it
SynonymsOf(col_lower) ==
    UNION {{synonyms[k].key} \cup {synonyms[k].syns[j] : j \in 1..Len(synonyms[k].syns)} :
              k \in {k \in 1..Len(synonyms) :
                         \/ col_lower = synonyms[k].key
                         \/ member(synonyms[k].syns, col_lower)}}

\* C20: the synonym part of the score of a numeric column is 50 for every
\* token that is a synonym of the column, at most 50 per token, and 0 for a
\* column that the synonym table neither has as a key nor lists.
C20_SynonymPoints ==
    ResolverRan =>
        \A i \in 1..Len(numeric_cols) :
            synonym_score(lower(numeric_cols[i]), Tokens)
            = 50 * Cardinality({j \in 1..Len(Tokens) :
                                   Tokens[j] \in SynonymsOf(lower(numeric_cols[i]))})

----------------------------------------------------------------------------
(* Generators *)

\* the rows where a column holds a number
NonMissing(col) == {r \in 1..Len(data) : data[r][index_of(columns, col)].t = "num"}

ColumnValues(col) == {data[r][index_of(columns, col)].n : r \in NonMissing(col)}

ColumnMin(col) == CHOOSE m \in ColumnValues(col) : \A v \in ColumnValues(col) : m <= v
ColumnMax(col) == CHOOSE m \in ColumnValues(col) : \A v \in ColumnValues(col) : m >= v

\* the numeric columns a question mentions, in numeric-column order
MentionedInOrder(q) ==
    SelectSeq(numeric_cols, LAMBDA c : \E i \in Mentioned(q) : numeric_cols[i] = c)

\* sum, average, min and max of a column, in hundredths
FourFigures(col) ==
    <<Fig("num", 100 * ColumnSum(col)),
      Fig("num", Rounded(100 * ColumnSum(col), Cardinality(NonMissing(col)))),
      Fig("num", 100 * ColumnMin(col)),
      Fig("num", 100 * ColumnMax(col))>>

\* C21: a MultiColumn answer over fewer than 2 mentioned numeric columns is
\* the 'mention at least two columns' failure; otherwise it reports sum,
\* average, min and max of the first 3 mentioned columns at most, in
\* numeric-column order, and of no other column.
C21_MultiColumnReport ==
    (Answered /\ answer.gen = "MultiColumn") =>
        \E m \in {MentionedInOrder(question)} :
            IF Len(m) < 2
            THEN answer = Answer("MultiColumn", TRUE,
                                 "Please mention at least two columns to compare",
                                 <<>>, <<>>)
            ELSE \E n \in {IF Len(m) < 3 THEN Len(m) ELSE 3} :
                    /\ ~answer.failure
                    /\ answer.names = [i \in 1..n |-> heading(m[i])]
                    /\ Len(answer.figs) = 4 * n
                    /\ \A i \in 1..n :
                          SubSeq(answer.figs, 4 * i - 3, 4 * i) = FourFigures(m[i])

\* four numeric columns are mentioned and three are reported
C21_Witness ==
    /\ Answered
    /\ answer.gen = "MultiColumn"
    /\ Len(MentionedInOrder(question)) = 4
    /\ Len(answer.names) = 3
    /\ ColumnHasMissing(c_cost)

\* the cell of the resolved column in a row of the snapshot
CellAt(r) == data[r][index_of(columns, metric_col)]

\* C22: a Trend answer with figures is labelled INCREASING exactly when the
\* value of the resolved column in the last row minus its value in the first
\* row is above 0, DECREASING exactly when it is below 0, STABLE exactly when
\* the two values are equal, and its percent change is 0 when the first value
\* is 0.
C22_TrendLabel ==
    (Answered /\ answer.gen = "Trend" /\ ~answer.failure) =>
        \E first \in {CellAt(1)}, last \in {CellAt(Len(data))} :
            /\ answer.text = "INCREASING"
                  <=> (first.t = "num" /\ last.t = "num" /\ last.n - first.n > 0)
            /\ answer.text = "DECREASING"
                  <=> (first.t = "num" /\ last.t = "num" /\ last.n - first.n < 0)
            /\ answer.text = "STABLE" <=> first = last
            /\ first = Num(0) => answer.figs[4] = Fig("num", 0)

\* C23: a Count answer is never a failure, for a numeric and a non-numeric
\* resolved column alike; its total records is the number of rows of the
\* snapshot and is the sum of its non-null values and its missing values, the
\* non-null values are the rows where the column holds a value, and the
\* missing values are not negative.
C23_CountFigures ==
    (Answered /\ answer.gen = "Count") =>
        /\ ~answer.failure
        /\ answer.text = "Data Count"
        /\ answer.figs[1] = Fig("num", Len(data))
        /\ answer.figs[2] =
              Fig("num", Cardinality({r \in 1..Len(data) : CellAt(r) # Missing}))
        /\ answer.figs[1].v = answer.figs[2].v + answer.figs[3].v
        /\ answer.figs[3].k = "num"
        /\ answer.figs[3].v >= 0

\* the rows of a text column with a missing value were counted
C23_Witness ==
    /\ Answered
    /\ answer.gen = "Count"
    /\ ~member(numeric_cols, metric_col)
    /\ Len(data) = 2
    /\ answer.figs[3] = Fig("num", 1)

\* the numeric columns whose name occurs in the lower-cased text
NamedInOrder(q) == SelectSeq(numeric_cols, LAMBDA c : contains(lower(q), lower(c)))

\* sum, average and max of a column, in hundredths
ThreeFigures(col) ==
    <<Fig("num", 100 * ColumnSum(col)),
      Fig("num", Rounded(100 * ColumnSum(col), Cardinality(NonMissing(col)))),
      Fig("num", 100 * ColumnMax(col))>>

----------------------------------------------------------------------------
(* The ratio path *)

HasWord(q, w) == contains(lower(q), w)

\* the profit-margin pattern is recognized
MarginRecognized ==
    /\ HasProfitMarginPhrase(question)
    /\ member(numeric_cols, c_profit)
    /\ member(numeric_cols, c_revenue)
    /\ ColumnSum(c_revenue) # 0

\* the revenue-to-cost pattern is recognized
RevenueCostRecognized ==
    /\ HasWord(question, <<"r","e","v","e","n","u","e">>)
    /\ HasWord(question, <<"c","o","s","t">>)
    /\ HasWord(question, <<"r","a","t","i","o">>) \/ HasWord(question, <<"v","s">>)
    /\ member(numeric_cols, c_revenue)
    /\ member(numeric_cols, c_cost)
    /\ ColumnSum(c_cost) # 0

\* C25: over a loaded snapshot, a question with a ratio keyword that matches
\* neither recognized pattern is answered 'Data not available for requested
\* ratio'; no column was resolved and no aggregate generator wrote the answer.
C25_OtherRatioNotAvailable ==
    (/\ Answered
     /\ data # <<>>
     /\ HasRatioKeyword(question)
     /\ ~MarginRecognized
     /\ ~RevenueCostRecognized) =>
        /\ answer = Answer("Ratio", TRUE, "Data not available for requested ratio",
                           <<>>, <<>>)
        /\ metric_col = None
        /\ answer.gen \notin AggregateGenerators \cup {"Unresolved", "MultiColumn"}

\* a revenue-to-cost question over a numeric cost column that sums to 0
C25_Witness ==
    /\ Answered
    /\ data # <<>>
    /\ HasWord(question, <<"r","e","v","e","n","u","e">>)
    /\ HasWord(question, <<"c","o","s","t">>)
    /\ HasWord(question, <<"v","s">>)
    /\ member(numeric_cols, c_revenue)
    /\ member(numeric_cols, c_cost)
    /\ ColumnSum(c_cost) = 0
    /\ answer.text = "Data not available for requested ratio"

----------------------------------------------------------------------------
(* Unreachable branches of the classifier *)

\* the comparison predicate holds of the text the keyword groups are tried on
ComparisonPredicate(q) ==
    \E k \in {<<" ","v","s"," ">>, <<" ","v","e","r","s","u","s"," ">>,
              <<" ","c","o","m","p","a","r","e","d"," ","t","o"," ">>} :
        contains(strip(lower(q)), k)

\* C26: no call of answer_question is answered by the Comparison generator:
\* over a loaded snapshot a question of which the comparison predicate holds
\* is answered by the Ratio generator ('vs', 'versus') or by the MultiColumn
\* generator ('compare'), before a column is resolved; and a question with
\* ' vs ' is answered by the Ratio generator, never by the MultiColumn one.
C26_ComparisonUnreachable ==
    Answered =>
        /\ answer.gen # "Comparison"
        /\ (data # <<>> /\ ComparisonPredicate(question)) =>
              /\ answer.gen \in {"Ratio", "MultiColumn"}
              /\ metric_col = None
              /\ answer.gen = "MultiColumn" => HasWord(question, <<"c","o","m","p","a","r","e">>)
        /\ (data # <<>> /\ HasWord(question, <<" ","v","s"," ">>)) => answer.gen = "Ratio"

\* a question with ' compared to ' and no ratio keyword was answered by the
\* MultiColumn generator
C26_Witness ==
    /\ Answered
    /\ data # <<>>
    /\ HasWord(question, <<" ","c","o","m","p","a","r","e","d"," ","t","o"," ">>)
    /\ ~HasRatioKeyword(question)
    /\ answer.gen = "MultiColumn"

\* C27: a question with 'total' for which a column was resolved is answered
\* by the Max, Min or Sum generator, so 'total records' and 'total rows' never
\* select Count; a Count answer is given only to a question with 'how many',
\* 'count' or 'number of' and without a keyword of Max, Min, Sum or Avg.
C27_TotalNeverCounts ==
    (Answered /\ metric_col # None) =>
        /\ HasWord(question, <<"t","o","t","a","l">>) =>
              answer.gen \in {"Max", "Min", "Sum"}
        /\ answer.gen = "Count" =>
              /\ \/ HasWord(question, <<"h","o","w"," ","m","a","n","y">>)
                 \/ HasWord(question, <<"c","o","u","n","t">>)
                 \/ HasWord(question, <<"n","u","m","b","e","r"," ","o","f">>)
              /\ ~any_in(lower(question), max_keywords)
              /\ ~any_in(lower(question), min_keywords)
              /\ ~any_in(lower(question), sum_keywords)
              /\ ~any_in(lower(question), avg_keywords)

\* 'total rows of revenue' was answered with the sum of revenue
C27_Witness ==
    /\ Answered
    /\ HasWord(question, <<"t","o","t","a","l"," ","r","o","w","s">>)
    /\ metric_col = c_revenue
    /\ answer.gen = "Sum"
    /\ ~answer.failure

----------------------------------------------------------------------------
(* Resolver: the scan over all columns *)

\* C28: when the resolver returns a column that is not numeric, every numeric
\* column scored 0; when a numeric column scores above 0 the resolved column
\* is numeric; every numeric column that a token of the scan matches scores
\* above 0, so the scan over all columns never returns a numeric column.
C28_FallbackNeverNumeric ==
    ResolverRan =>
        \E sc \in {Scores}, hits \in {TokenHits} :
            /\ (metric_col # None /\ ~member(numeric_cols, metric_col))
               => \A i \in DOMAIN sc : sc[i] = 0
            /\ (\E i \in DOMAIN sc : sc[i] > 0) => member(numeric_cols, metric_col)
            /\ \A h \in hits : \A i \in DOMAIN sc :
                  numeric_cols[i] = columns[h] => sc[i] > 0
            /\ ((\A i \in DOMAIN sc : sc[i] = 0) /\ hits # {})
               => /\ metric_col = columns[Least(hits)]
                  /\ ~member(numeric_cols, metric_col)

\* the scan returned the text column date over a table with numeric columns
C28_Witness ==
    /\ ResolverRan
    /\ metric_col = c_date
    /\ numeric_cols # <<>>
    /\ \A i \in 1..Len(numeric_cols) : ScoreOf(i) = 0
    /\ TokenHits # {}

----------------------------------------------------------------------------
(* Confidence of failed answers *)

\* C29: after an answer of the Ratio generator the confidence is 0.9 and
\* after an answer of the MultiColumn generator it is 0.85, for the failures
\* 'Data not available for requested ratio', 'Please mention at least two
\* columns to compare' and a caught error as for an answer with figures.
C29_ConfidenceOfFailedAnswer ==
    Answered =>
        /\ answer.gen = "Ratio" => get_confidence_score(Self) = 90
        /\ answer.gen = "MultiColumn" => get_confidence_score(Self) = 85
        /\ answer.text \in {"Data not available for requested ratio",
                            "Error calculating ratio"}
              => get_confidence_score(Self) = 90
        /\ answer.text \in {"Please mention at least two columns to compare",
                            "Error in comparison"}
              => get_confidence_score(Self) = 85

\* the MultiColumn generator failed and the confidence is 0.85
C29_Witness ==
    /\ Answered
    /\ answer.gen = "MultiColumn"
    /\ answer.failure
    /\ answer.text = "Please mention at least two columns to compare"
    /\ get_confidence_score(Self) = 85

----------------------------------------------------------------------------
(* Confidence over an empty snapshot *)

\* C30: an instance over an empty snapshot reports the confidence 1.0 after
\* any sequence of questions, and no call on it changes the confidence,
\* whatever ratio or multi-column keywords the question holds.
C30_EmptySnapshotKeepsConfidence ==
    /\ [](data = <<>> => get_confidence_score(Self) = 100)
    /\ [][(data = <<>> /\ CallStep) => confidence' = confidence]_vars

\* an empty snapshot was asked a second question, one with a ratio keyword,
\* after its backing table had been given rows
C30_Witness ==
    /\ Answered
    /\ data = <<>>
    /\ after_failure
    /\ store.rows # <<>>
    /\ is_ratio_question(question)
    /\ get_confidence_score(Self) = 100

====
